---- MODULE Spec2Model ----
(***************************************************************************)
(* Model of the MarketAlgoX rating pipeline: the composite rating          *)
(* calculator, the percentile ranking engine, the sliding-window rate      *)
(* limiter, the concurrent collector and calculate_all_ratings; the EPS,   *)
(* SMR, A/D and industry group ratings, the RS value and the EPS           *)
(* components, the six screeners, and consecutive full runs on one store;  *)
(* the SMR components, the weighted scores under scaled weights, the       *)
(* order of the pipeline steps, the requests of one instrument and the     *)
(* RS STS %.                                                               *)
(*                                                                         *)
(* Numbers.  Ratings, percentiles and percentages are Python floats that   *)
(* the code rounds to two decimals; the model holds them as integers in    *)
(* hundredths (50.00 is 5000) and computes quotients exactly, rounding     *)
(* half-to-even as round(x, 2) does on an exactly representable value.     *)
(* Weights are held in hundredths as well (0.30 is 30).                    *)
(* An optional number is None or Num(v); an optional letter is "None" or   *)
(* one of "A".."E".                                                        *)
(***************************************************************************)
EXTENDS Integers, Sequences, FiniteSets, TLC

VARIABLES
    \* ---- calculate_comp_rating (one call) ----
    comp_args,      \* the six arguments of the call
    comp_pc,        \* "call" before the call, "return" after it
    comp_rating,    \* the value returned
    \* ---- calculate_percentile_ranking (one call) ----
    values_dict,    \* the argument: a dict, as its items in insertion order
    pct_pc,         \* "call" before the call, "return" after it
    percentile_dict,\* the dict returned: ticker -> percentile
    \* ---- the ranking loop over a long sorted list ----
    rank_total,     \* total = len(sorted_tickers)
    rank_idx,       \* how many entries the loop has been through
    rank_prev,      \* the percentile given in the iteration before the last
    rank_cur,       \* the percentile given in the last iteration
    \* ---- RateLimiter and the threads that call wait_if_needed ----
    clock,          \* time.time(), in seconds
    calls,          \* self.calls
    rl_pc,          \* per thread: where it is in wait_if_needed
    rl_now,         \* per thread: its local `now`
    rl_read,        \* per thread: the list its comprehension iterates over
    rl_wake,        \* per thread: when its time.sleep() is over
    rl_started,     \* how many calls of wait_if_needed have begun
    released,       \* the times at which wait_if_needed returned, in order
    \* ---- IBDDataCollector.collect_ticker_data (one call) ----
    ct_env,         \* what the API returns and which store call raises
    ct_pc,          \* "call" before the call, "return" after it
    ct_out,         \* the value returned, with the requests and writes made
    \* ---- IBDDataCollector.collect_all_data ----
    col_pc,         \* the calling thread: "as_completed" or "returned"
    tickers_list,   \* the argument
    batch_pc,       \* per batch: "queued", "running", "done" or "raised"
    batch_conn,     \* per batch: its db_conn, "none", "open" or "closed"
    batch_idx,      \* per batch: how many of its tickers the loop has done
    batch_results,  \* per batch: the results dict of collect_batch
    ticker_log,     \* per ticker: what collect_ticker_data got and did
    consumed,       \* the futures as_completed has yielded
    total_success,
    total_failed,
    all_collected_tickers,
    ticker_master,  \* the tickers given to insert_tickers_bulk
    \* ---- calculate_all_ratings, the loop of lines 907-951 ----
    all_tickers,    \* self.db.get_all_tickers()
    rs_ratings_dict,
    eps_ratings_dict,
    smr_ratings_dict,
    industry_group_rs_ratings_dict,
    ad_rating_of,   \* per ticker: what calculate_ad_rating returns for it
    high_distance_of, \* per ticker: what calculate_52w_high_distance returns
    rate_idx,       \* how many tickers the loop has been through
    rate_raised,    \* the tickers whose iteration ended in the except clause
    calculated_ratings, \* per ticker: the row of insert_calculated_rating
    calculated_count,
    \* ---- calculate_eps_ratings (one call) ----
    eps_components_dict, \* self.db.get_all_eps_components(), per ticker
    eps_pc,         \* "call" before the call, "return" after it
    eps_result,     \* the dict returned: ticker -> eps_rating
    \* ---- calculate_all_industry_group_rs (one call) ----
    all_rs_values,  \* self.db.get_all_rs_values(), per ticker
    company_profile,\* per ticker: None, or its industry and sector
    igr_pc,         \* "call" before the call, "return" after it
    industry_group_rs_dict,\* the dict returned: ticker -> percentile
    \* ---- IBDScreeners: the six screeners ----
    store,          \* per ticker: what the read calls of the store return
    snapshot,       \* the store before the first screener
    screened,       \* the screeners that have run
    screener_results,\* per screener: the list it returned
    \* ---- consecutive full runs on one store ----
    run_no,             \* the number of the run under way, from 1
    run_phase,          \* the step the run is about to take
    collected_tickers,  \* what collect_all_data returned in this run
    db_tickers,         \* the ticker master
    db_calculated_rs,   \* per instrument: 0, or the run that wrote its RS row
    db_calculated_eps,  \* per instrument: 0, or the run that wrote its EPS row
    db_calculated_ratings, \* 0, or the run that wrote its rating row
    rs_values_dict,     \* the tickers calculate_rs_ratings read to rank
    \* ---- calculate_eps_components (one call) ----
    income_statements_quarterly, \* the quarterly statements, latest first
    income_statements_annual,    \* the annual statements, latest first
    ec_pc,          \* "call" before the call, "return" after it
    ec_result,      \* what the call returned
    \* ---- calculate_smr_ratings (one call) ----
    smr_components_dict, \* self.db.get_all_smr_components(), per ticker
    smr_pc,         \* "call" before the call, "return" after it
    smr_result,     \* the dict returned: ticker -> letter
    \* ---- calculate_ad_rating (one call) ----
    price_history,      \* get_price_history(ticker, days=70): None or bars
    ad_pc,          \* "call" before the call, "return" after it
    combined_score, \* the combined score of the call as a fraction, or None
    ad_result,      \* the letter returned, "None" for None
    \* ---- calculate_rs_value (one call) ----
    rsv_close,      \* the close column of the bars supplied, None for no frame
    rsv_pc,         \* "call" before the call, "return" after it
    rsv_out,        \* the tuple returned, as a record
    \* ---- calculate_smr_components (one call) ----
    income_quarterly,   \* the quarterly income statements of the ticker, latest first
    income_annual,      \* its annual income statements, latest first
    balance_sheet,      \* its annual balance sheets, latest first
    smc_pc,             \* "call" before the call, "return" after it
    smc_result,         \* the dictionary returned, None for none
    \* ---- the weighted scores under a scaled weight table ----
    ws_kind,        \* "eps", "smr" or "comp": the computation run
    ws_input,       \* its input: stored components, or the six arguments
    ws_scale,       \* the constant all weights are multiplied by
    ws_pc,          \* "call" before the two runs, "return" after them
    ws_plain,       \* the scores under the weights of the code
    ws_scaled,      \* the scores under the multiplied weights
    \* ---- the pipeline: run_full_collection, then calculate_all_ratings ----
    pl_step,        \* index in PipelineSteps of the step that runs, Len + 1 at the end
    pl_batch,       \* per batch: "submitted", "running", "returned" or "raised"
    pl_succeeded,   \* per batch: the tickers collect_ticker_data returned True for
    pl_collected,   \* collected_tickers, a set
    pl_idx,         \* the number of tickers the loop of the step has handled
    pl_tried,       \* per metric kind: the tickers whose raw metric was derived
    pl_stored,      \* per metric kind: the tickers with a stored raw metric
    pl_ranked,      \* per metric kind: None, or what held when it was ranked
    \* ---- the requests of one collect_ticker_data call ----
    fx_upstream,    \* per endpoint: what the upstream API does with a request
    fx_pc,          \* the index in Endpoints of the next request, 6 after the return
    fx_requests,    \* per endpoint: the number of requests.get calls made
    fx_data,        \* per endpoint: what fetch_with_rate_limit returned, Unasked before
    fx_escaped,     \* an exception has left fetch_with_rate_limit
    fx_ret,         \* what collect_ticker_data returned: "none" before, "True", "False"
    \* ---- RS STS % (one call) ----
    sts_benchmark,  \* the price rows of the benchmark, oldest first, None for none
    sts_target,     \* the price rows of the ticker, oldest first, None for none
    sts_series,     \* the series handed to calculate_rs_sts_percentile itself
    sts_pc,         \* "get" before get_rs_sts_percentile and "got" after it,
                    \* "calculate" before calculate_rs_sts_percentile and
                    \* "calculated" after it
    sts_result      \* the value returned, None for None

compVars == <<comp_args, comp_pc, comp_rating>>
pctVars == <<values_dict, pct_pc, percentile_dict>>
rankVars == <<rank_total, rank_idx, rank_prev, rank_cur>>
rlVars == <<clock, calls, rl_pc, rl_now, rl_read, rl_wake, rl_started, released>>
ctVars == <<ct_env, ct_pc, ct_out>>
rateVars ==
    <<all_tickers, rs_ratings_dict, eps_ratings_dict, smr_ratings_dict,
      industry_group_rs_ratings_dict, ad_rating_of, high_distance_of,
      rate_idx, rate_raised, calculated_ratings, calculated_count>>
colVars ==
    <<col_pc, tickers_list, batch_pc, batch_conn, batch_idx, batch_results,
      ticker_log, consumed, total_success, total_failed,
      all_collected_tickers, ticker_master>>
epsVars == <<eps_components_dict, eps_pc, eps_result>>
igrVars == <<all_rs_values, company_profile, igr_pc, industry_group_rs_dict>>
screenVars == <<store, snapshot, screened, screener_results>>
runVars == <<run_no, run_phase, collected_tickers, db_tickers, db_calculated_rs,
             db_calculated_eps, db_calculated_ratings, rs_values_dict>>
ecVars == <<income_statements_quarterly, income_statements_annual, ec_pc, ec_result>>
smrVars == <<smr_components_dict, smr_pc, smr_result>>
adVars == <<price_history, ad_pc, combined_score, ad_result>>
rsvVars == <<rsv_close, rsv_pc, rsv_out>>
smcVars == <<income_quarterly, income_annual, balance_sheet, smc_pc, smc_result>>
wsVars == <<ws_kind, ws_input, ws_scale, ws_pc, ws_plain, ws_scaled>>
plVars == <<pl_step, pl_batch, pl_succeeded, pl_collected, pl_idx, pl_tried, pl_stored, pl_ranked>>
fxVars == <<fx_upstream, fx_pc, fx_requests, fx_data, fx_escaped, fx_ret>>
stsVars == <<sts_benchmark, sts_target, sts_series, sts_pc, sts_result>>

----------------------------------------------------------------------------
(* Optional values and exact arithmetic *)

None == [tag |-> "none"]
NaN == [tag |-> "nan"]
Num(v) == [tag |-> "num", val |-> v]
IsNum(x) == x.tag = "num"

Abs(x) == IF x < 0 THEN -x ELSE x
Max(a, b) == IF a >= b THEN a ELSE b
Min(a, b) == IF a <= b THEN a ELSE b

\* floor of a / b for b > 0 (a of either sign)
FloorDiv(a, b) == IF a >= 0 THEN a \div b ELSE -((-a + b - 1) \div b)

\* a / b rounded to the nearest integer, a tie going to the even neighbour
RoundDiv(a, b) ==
    LET q == FloorDiv(a, b)
        r == a - q * b
    IN  IF 2 * r < b THEN q
        ELSE IF 2 * r > b THEN q + 1
        ELSE IF q % 2 = 0 THEN q ELSE q + 1

----------------------------------------------------------------------------
(* calculate_comp_rating, src/ibd_ratings_calculator.py:754-842 *)

\* the weights, in hundredths
W_RS == 30
W_EPS == 30
W_AD == 15
W_SMR == 10
W_IGRS == 10
W_HIGH == 5

Components == {"rs", "eps", "ad", "smr", "igrs", "high"}
CodeOrder == <<"rs", "eps", "ad", "smr", "igrs", "high">>
Letters == {"A", "B", "C", "D", "E"}

Weight(c) ==
    CASE c = "rs" -> W_RS
      [] c = "eps" -> W_EPS
      [] c = "ad" -> W_AD
      [] c = "smr" -> W_SMR
      [] c = "igrs" -> W_IGRS
      [] c = "high" -> W_HIGH

\* ad_score_map / smr_score_map: the 0-100 score of a letter
LetterScore(l) ==
    CASE l = "A" -> 100
      [] l = "B" -> 75
      [] l = "C" -> 50
      [] l = "D" -> 25
      [] l = "E" -> 0

\* high_score of a distance d (hundredths of a percent), in 1/10000 points:
\* d >= -5 -> 100; d >= -15 -> 100 - (|d| - 5) * 5;
\* otherwise max(0, 50 - (|d| - 15) * 3.33)
HighScore4(d) ==
    IF d >= -500 THEN 1000000
    ELSE IF d >= -1500 THEN 1000000 - (Abs(d) - 500) * 5 * 100
    ELSE Max(0, 500000 - (Abs(d) - 1500) * 333)

\* is component c supplied (the guard of its if-statement)?
Present(a, c) ==
    CASE c = "rs" -> IsNum(a.rs_rating)
      [] c = "eps" -> IsNum(a.eps_rating)
      [] c = "ad" -> a.ad_rating \in Letters
      [] c = "smr" -> a.smr_rating \in Letters
      [] c = "igrs" -> IsNum(a.industry_group_rs)
      [] c = "high" -> IsNum(a.price_vs_52w_high)

\* the 0-100 score of a present component, in 1/10000 points
Score4(a, c) ==
    CASE c = "rs" -> a.rs_rating.val * 100
      [] c = "eps" -> a.eps_rating.val * 100
      [] c = "ad" -> LetterScore(a.ad_rating) * 10000
      [] c = "smr" -> LetterScore(a.smr_rating) * 10000
      [] c = "igrs" -> a.industry_group_rs.val * 100
      [] c = "high" -> HighScore4(a.price_vs_52w_high.val)

\* score and weight_sum after the if-statements of the components of
\* `order` have run in that order with the weight literals w (score in
\* 1/1000000, weight in 1/100)
RECURSIVE AccumulateWith(_, _, _)
AccumulateWith(w, a, order) ==
    IF order = <<>> THEN [score |-> 0, weight_sum |-> 0]
    ELSE LET n == Len(order)
             acc == AccumulateWith(w, a, SubSeq(order, 1, n - 1))
             c == order[n]
         IN  IF Present(a, c)
             THEN [score |-> acc.score + Score4(a, c) * w[c],
                   weight_sum |-> acc.weight_sum + w[c]]
             ELSE acc

\* the accumulation with the weights of the code
Accumulate(a, order) == AccumulateWith([c \in Components |-> Weight(c)], a, order)

\* a variant of Normalize that forgets the clamp
NormalizeNoClamp(acc) ==
    IF acc.weight_sum > 0
    THEN Num(RoundDiv(acc.score, acc.weight_sum))
    ELSE None

\* lines 835-839: normalized_score = score / weight_sum * 100, clamped to
\* [0, 100] and rounded to two decimals; None when nothing was present.
\* In hundredths normalized_score is acc.score / acc.weight_sum.
Normalize(acc) ==
    IF acc.weight_sum > 0
    THEN Num(RoundDiv(Min(10000 * acc.weight_sum, Max(0, acc.score)),
                      acc.weight_sum))
    ELSE None

calculate_comp_rating(a) == Normalize(Accumulate(a, CodeOrder))

\* every order in which the six components can be accumulated
Orders ==
    {o \in [1..6 -> Components] : \A i, j \in 1..6 : i # j => o[i] # o[j]}

RsArgs == {None, Num(50), Num(5000)}
EpsArgs == {None, Num(9000)}
AdArgs == {"None", "D"}
SmrArgs == {"None", "B"}
IgrsArgs == {None, Num(10000)}
HighArgs == {None, Num(-300), Num(-1000), Num(-2000), Num(-4000)}

CompArgs ==
    [rs_rating : RsArgs, eps_rating : EpsArgs, ad_rating : AdArgs,
     price_vs_52w_high : HighArgs, smr_rating : SmrArgs,
     industry_group_rs : IgrsArgs]

CompIdle ==
    /\ comp_args = [rs_rating |-> None, eps_rating |-> None,
                    ad_rating |-> "None", price_vs_52w_high |-> None,
                    smr_rating |-> "None", industry_group_rs |-> None]
    /\ comp_pc = "idle"
    /\ comp_rating = None

InitComp ==
    /\ comp_args \in CompArgs
    /\ comp_pc = "call"
    /\ comp_rating = None

\* one call of calculate_comp_rating, its six blocks taken in any order
CompCall ==
    /\ comp_pc = "call"
    /\ \E o \in Orders : comp_rating' = Normalize(Accumulate(comp_args, o))
    /\ comp_pc' = "return"
    /\ UNCHANGED comp_args

----------------------------------------------------------------------------
(* calculate_percentile_ranking, src/ibd_ratings_calculator.py:32-60 *)

\* the number of instruments of the dicts that are ranked
MaxTickers == 3

Tickers == 1..MaxTickers

\* line 43: the items whose value is neither None nor NaN
valid_values(d) == SelectSeq(d, LAMBDA e : IsNum(e.value))

\* a variant of InsertSorted that puts x before the items equal to it
RECURSIVE InsertBeforeEquals(_, _)
InsertBeforeEquals(x, s) ==
    IF s = <<>> THEN <<x>>
    ELSE IF s[Len(s)].value.val < x.value.val THEN Append(s, x)
    ELSE Append(InsertBeforeEquals(x, SubSeq(s, 1, Len(s) - 1)), s[Len(s)])

\* x put into the ascending list s, after the items not greater than it
RECURSIVE InsertSorted(_, _)
InsertSorted(x, s) ==
    IF s = <<>> THEN <<x>>
    ELSE IF s[Len(s)].value.val <= x.value.val THEN Append(s, x)
    ELSE Append(InsertSorted(x, SubSeq(s, 1, Len(s) - 1)), s[Len(s)])

\* line 49: sorted(valid_values.items(), key=lambda x: x[1]), a stable
\* ascending sort: equal values keep their insertion order
RECURSIVE sorted_by_value(_)
sorted_by_value(s) ==
    IF s = <<>> THEN <<>>
    ELSE InsertSorted(s[Len(s)], sorted_by_value(SubSeq(s, 1, Len(s) - 1)))

\* a variant of Percentile that ranks from 0
PercentileFromZero(idx, total) == RoundDiv(idx * 10000, total)

\* lines 57-58: round(((idx + 1) / total) * 100, 2), in hundredths
Percentile(idx, total) == RoundDiv((idx + 1) * 10000, total)

calculate_percentile_ranking(d) ==
    LET sorted_tickers == sorted_by_value(valid_values(d))
        total == Len(sorted_tickers)
        pos(t) == CHOOSE i \in 1..total : sorted_tickers[i].ticker = t
    IN  [t \in {sorted_tickers[i].ticker : i \in 1..total} |->
            Percentile(pos(t) - 1, total)]

\* the values an instrument of the argument can have
RawValues == {None, NaN} \cup {Num(v) : v \in {-5, 0, 7, 12}}

\* the items a dict can hold
Items == [ticker : Tickers, value : RawValues]

\* the keys of a dict are pairwise different
DistinctKeys(d) ==
    \A i, j \in 1..Len(d) : i # j => d[i].ticker # d[j].ticker

PctIdle ==
    /\ values_dict = <<>>
    /\ pct_pc = "idle"
    /\ percentile_dict = <<>>

\* the dicts of at most MaxTickers instruments, in every insertion order
InitPct ==
    /\ \E n \in 0..MaxTickers : values_dict \in [1..n -> Items]
    /\ DistinctKeys(values_dict)
    /\ pct_pc = "call"
    /\ percentile_dict = <<>>

PctCall ==
    /\ pct_pc = "call"
    /\ percentile_dict' = calculate_percentile_ranking(values_dict)
    /\ pct_pc' = "return"
    /\ UNCHANGED values_dict

----------------------------------------------------------------------------
(* The loop of calculate_percentile_ranking (lines 52-58) over a sorted    *)
(* list of rank_total items with pairwise different values.  The percentile *)
(* of an item depends on its index and on the length of the list alone, so *)
(* lists too long to be written out are followed through their indices.    *)

\* the longest of the short lists
MaxShortList == 4

RankTotals == (1..MaxShortList) \cup {10000, 10001, 20001}

RankIdle ==
    /\ rank_total = 0
    /\ rank_idx = 0
    /\ rank_prev = None
    /\ rank_cur = None

InitRank ==
    /\ rank_total \in RankTotals
    /\ rank_idx = 0
    /\ rank_prev = None
    /\ rank_cur = None

\* one iteration of `for idx, (ticker, val) in enumerate(sorted_tickers)`
RankLoop ==
    /\ rank_total > 0
    /\ rank_idx < rank_total
    /\ rank_prev' = rank_cur
    /\ rank_cur' = Num(Percentile(rank_idx, rank_total))
    /\ rank_idx' = rank_idx + 1
    /\ UNCHANGED rank_total

----------------------------------------------------------------------------
(* RateLimiter, src/fmp_data_api/data_fetcher.py:15-35, called by the      *)
(* threads of a ThreadPoolExecutor through _fetch_with_rate_limit.  The    *)
(* class takes no lock, so a thread can be preempted between any two of    *)
(* the steps below.                                                        *)

\* the sliding window of line 26 and line 29, in seconds
WindowSeconds == 60

\* max_calls_per_minute of the limiter under test
MaxCallsPerMinute == 2

\* the threads of the pool
NumWorkers == 2

\* the clock advances in steps of TickSeconds up to MaxTime
TickSeconds == 20
MaxTime == 80

\* the number of calls of wait_if_needed in a run of one thread, and in a
\* run of the pool
MaxCalls == 4
PoolCalls == 3

Workers == 1..NumWorkers

RLIdle ==
    /\ clock = 0
    /\ calls = <<>>
    /\ rl_pc = [w \in Workers |-> "off"]
    /\ rl_now = [w \in Workers |-> 0]
    /\ rl_read = [w \in Workers |-> <<>>]
    /\ rl_wake = [w \in Workers |-> 0]
    /\ rl_started = 0
    /\ released = <<>>

\* RateLimiter.__init__ (lines 18-20); no thread is inside wait_if_needed
InitRL ==
    /\ clock = 0
    /\ calls = <<>>
    /\ rl_pc = [w \in Workers |-> "idle"]
    /\ rl_now = [w \in Workers |-> 0]
    /\ rl_read = [w \in Workers |-> <<>>]
    /\ rl_wake = [w \in Workers |-> 0]
    /\ rl_started = 0
    /\ released = <<>>

\* time passes: a tick is long against the statements of wait_if_needed,
\* so it finds every thread between two calls, asleep, or gone
Tick ==
    /\ clock + TickSeconds <= MaxTime
    /\ \A w \in Workers : rl_pc[w] \in {"idle", "sleep", "raised"}
    /\ clock' = clock + TickSeconds
    /\ UNCHANGED <<calls, rl_pc, rl_now, rl_read, rl_wake, rl_started, released>>

\* line 24: now = time.time()
RLNow(w) ==
    /\ rl_pc[w] = "idle"
    /\ rl_started < MaxCalls
    /\ rl_started' = rl_started + 1
    /\ rl_now' = [rl_now EXCEPT ![w] = clock]
    /\ rl_pc' = [rl_pc EXCEPT ![w] = "filter"]
    /\ UNCHANGED <<clock, calls, rl_read, rl_wake, released>>

\* line 26, right-hand side: the comprehension reads self.calls
RLFilterRead(w) ==
    /\ rl_pc[w] = "filter"
    /\ rl_read' = [rl_read EXCEPT ![w] = calls]
    /\ rl_pc' = [rl_pc EXCEPT ![w] = "store"]
    /\ UNCHANGED <<clock, calls, rl_now, rl_wake, rl_started, released>>

\* the timestamps of list l less than a window older than now
Recent(l, now) == SelectSeq(l, LAMBDA t : now - t < WindowSeconds)

\* line 26, the assignment: self.calls = [the recent ones of what was read]
RLFilterStore(w) ==
    /\ rl_pc[w] = "store"
    /\ calls' = Recent(rl_read[w], rl_now[w])
    /\ rl_pc' = [rl_pc EXCEPT ![w] = "check"]
    /\ UNCHANGED <<clock, rl_now, rl_read, rl_wake, rl_started, released>>

\* line 28: if len(self.calls) >= self.max_calls_per_minute
RLCheck(w) ==
    /\ rl_pc[w] = "check"
    /\ rl_pc' = [rl_pc EXCEPT ![w] =
                    IF Len(calls) >= MaxCallsPerMinute THEN "oldest"
                    ELSE "append"]
    /\ UNCHANGED <<clock, calls, rl_now, rl_read, rl_wake, rl_started, released>>

\* lines 29-32: sleep_time = 60 - (now - self.calls[0]); sleep if positive.
\* self.calls[0] raises IndexError when another thread has emptied the list
\* since line 28.
RLSleepTime(w) ==
    /\ rl_pc[w] = "oldest"
    /\ IF calls = <<>>
       THEN /\ rl_pc' = [rl_pc EXCEPT ![w] = "raised"]
            /\ UNCHANGED rl_wake
       ELSE LET sleep_time == WindowSeconds - (rl_now[w] - calls[1])
            IN  IF sleep_time > 0
                THEN /\ rl_pc' = [rl_pc EXCEPT ![w] = "sleep"]
                     /\ rl_wake' = [rl_wake EXCEPT ![w] = clock + sleep_time]
                ELSE /\ rl_pc' = [rl_pc EXCEPT ![w] = "append"]
                     /\ UNCHANGED rl_wake
    /\ UNCHANGED <<clock, calls, rl_now, rl_read, rl_started, released>>

\* line 32: time.sleep(sleep_time) returns
RLWake(w) ==
    /\ rl_pc[w] = "sleep"
    /\ clock >= rl_wake[w]
    /\ rl_pc' = [rl_pc EXCEPT ![w] = "reset"]
    /\ UNCHANGED <<clock, calls, rl_now, rl_read, rl_wake, rl_started, released>>

\* line 33: self.calls = []
RLReset(w) ==
    /\ rl_pc[w] = "reset"
    /\ calls' = <<>>
    /\ rl_pc' = [rl_pc EXCEPT ![w] = "append"]
    /\ UNCHANGED <<clock, rl_now, rl_read, rl_wake, rl_started, released>>

\* line 35: self.calls.append(now); wait_if_needed returns and the caller
\* issues its request
RLAppend(w) ==
    /\ rl_pc[w] = "append"
    /\ calls' = Append(calls, rl_now[w])
    /\ released' = Append(released, clock)
    /\ rl_pc' = [rl_pc EXCEPT ![w] = "idle"]
    /\ UNCHANGED <<clock, rl_now, rl_read, rl_wake, rl_started>>

----------------------------------------------------------------------------
(* IBDDataCollector: collect_ticker_data, collect_batch, collect_all_data *)
(* (src/ibd_data_collector.py).  The upstream API and the store are the    *)
(* environment: each request returns nothing or a payload of some length,  *)
(* each store call returns or raises.                                      *)

\* line 116: the least number of daily bars
MinBars == 252

\* line 125: the least number of quarterly statements
MinQuarters == 5

\* the longest tickers_list
NumTickers == 5

\* batch_size of line 192 (50 in the code), scaled to the short lists
BatchSize == 2

\* max_workers of collect_all_data
MaxWorkers == 2

\* what get_historical_prices returns: None, or a frame of that many rows
PriceResponses == {None, Num(MinBars - 1), Num(MinBars)}

\* what get_income_statement(period='quarter') returns: None or a list
QuarterResponses == {None, Num(MinQuarters - 1), Num(MinQuarters)}

\* what the annual statements, the balance sheet and the profile return
OptionalResponses == {None, Num(1)}

\* the store call that raises during one collect_ticker_data, if any
RaiseAt == {"none", "prices", "income_q", "income_a", "balance_sheet", "profile"}

\* the environment of one call of collect_ticker_data
Responses ==
    [prices : PriceResponses, income_q : QuarterResponses,
     income_a : OptionalResponses, balance_sheet : OptionalResponses,
     profile : OptionalResponses, raise_at : RaiseAt]

\* truth value of an optional list, dict or frame: None and empty are false
Truthy(x) == IsNum(x) /\ x.val > 0

\* a variant of EnoughBars that wants more than MinBars rows
EnoughBarsStrict(prices_df) == IsNum(prices_df) /\ prices_df.val > MinBars

\* line 116: prices_df is not None and len(prices_df) >= 252
EnoughBars(prices_df) == IsNum(prices_df) /\ prices_df.val >= MinBars

\* line 125: income_q and len(income_q) >= 5
EnoughQuarters(income_q) == Truthy(income_q) /\ income_q.val >= MinQuarters

\* what one call did: the value returned, whether the except clause ran,
\* and the requests ("get_") and completed store writes ("put_") in order
Outcome(ret, raised, trace) == [ret |-> ret, raised |-> raised, trace |-> trace]

\* lines 143-147: profile, then return True
StepProfile(r, tr) ==
    LET t == Append(tr, "get_profile") IN
    IF ~Truthy(r.profile) THEN Outcome(TRUE, FALSE, t)
    ELSE IF r.raise_at = "profile" THEN Outcome(FALSE, TRUE, t)
    ELSE Outcome(TRUE, FALSE, Append(t, "put_profile"))

\* lines 138-140: annual balance sheet
StepBalance(r, tr) ==
    LET t == Append(tr, "get_balance_sheet") IN
    IF ~Truthy(r.balance_sheet) THEN StepProfile(r, t)
    ELSE IF r.raise_at = "balance_sheet" THEN Outcome(FALSE, TRUE, t)
    ELSE StepProfile(r, Append(t, "put_balance_sheet"))

\* lines 133-135: annual income statements
StepAnnual(r, tr) ==
    LET t == Append(tr, "get_income_a") IN
    IF ~Truthy(r.income_a) THEN StepBalance(r, t)
    ELSE IF r.raise_at = "income_a" THEN Outcome(FALSE, TRUE, t)
    ELSE StepBalance(r, Append(t, "put_income_a"))

\* lines 124-130: quarterly income statements, or return False
StepQuarter(r, tr) ==
    LET t == Append(tr, "get_income_q") IN
    IF ~EnoughQuarters(r.income_q) THEN Outcome(FALSE, FALSE, t)
    ELSE IF r.raise_at = "income_q" THEN Outcome(FALSE, TRUE, t)
    ELSE StepAnnual(r, Append(t, "put_income_q"))

\* a variant of StepPrices that leaves the price rows unwritten
StepPricesUnwritten(r, tr) ==
    LET t == Append(tr, "get_prices") IN
    IF ~EnoughBars(r.prices) THEN Outcome(FALSE, FALSE, t)
    ELSE IF r.raise_at = "prices" THEN Outcome(FALSE, TRUE, t)
    ELSE StepQuarter(r, t)

\* lines 115-121: price history, or return False
StepPrices(r, tr) ==
    LET t == Append(tr, "get_prices") IN
    IF ~EnoughBars(r.prices) THEN Outcome(FALSE, FALSE, t)
    ELSE IF r.raise_at = "prices" THEN Outcome(FALSE, TRUE, t)
    ELSE StepQuarter(r, Append(t, "put_prices"))

\* lines 109-152: one call under environment r; an exception of a store
\* call is caught by line 149 and the call returns False
collect_ticker_data(r) == StepPrices(r, <<>>)

\* no call of collect_ticker_data under study
CtIdle ==
    /\ ct_pc = "idle"
    /\ ct_env = None
    /\ ct_out = None

\* before a call of collect_ticker_data in some environment
InitCt ==
    /\ ct_pc = "call"
    /\ ct_env \in Responses
    /\ ct_out = None

\* the call
CtCall ==
    /\ ct_pc = "call"
    /\ ct_out' = collect_ticker_data(ct_env)
    /\ ct_pc' = "return"
    /\ UNCHANGED ct_env

\* the environments the batches are run in: every way to fail and to
\* succeed, the optional statements present
BatchResponses ==
    {r \in Responses :
        /\ r.prices \in {None, Num(MinBars)}
        /\ r.income_q \in {Num(MinQuarters - 1), Num(MinQuarters)}
        /\ r.income_a = Num(1)
        /\ r.balance_sheet = Num(1)
        /\ r.profile = Num(1)
        /\ r.raise_at \in {"none", "profile"}}

\* is x an element of sequence s?
InSeq(x, s) == \E i \in 1..Len(s) : s[i] = x

\* the number of batches of a list of n tickers (line 193)
NumBatches(n) == (n + BatchSize - 1) \div BatchSize

\* line 193: batches[b] = tickers_list[i:i+batch_size], i = (b-1)*batch_size
batches ==
    [b \in 1..NumBatches(Len(tickers_list)) |->
        SubSeq(tickers_list, (b - 1) * BatchSize + 1,
               Min(b * BatchSize, Len(tickers_list)))]

\* what is known of a ticker before collect_ticker_data is called for it
NotCollected ==
    [calls |-> 0, ret |-> FALSE, raised |-> FALSE, trace |-> <<>>,
     prices |-> None, income_q |-> None, conn |-> 0, conn_state |-> "none"]

\* lines 161-165
EmptyResults == [success |-> 0, failed |-> 0, tickers_collected |-> <<>>]

\* no collection in progress
ColIdle ==
    /\ col_pc = "off"
    /\ tickers_list = <<>>
    /\ batch_pc = <<>>
    /\ batch_conn = <<>>
    /\ batch_idx = <<>>
    /\ batch_results = <<>>
    /\ ticker_log = <<>>
    /\ consumed = {}
    /\ total_success = 0
    /\ total_failed = 0
    /\ all_collected_tickers = <<>>
    /\ ticker_master = {}

\* collect_all_data up to line 203: the batches are submitted, the tallies
\* are zero, no pool thread has started a batch
InitCol ==
    /\ col_pc = "as_completed"
    /\ \E n \in 0..NumTickers : tickers_list = [i \in 1..n |-> i]
    /\ batch_pc = [b \in 1..NumBatches(Len(tickers_list)) |-> "queued"]
    /\ batch_conn = [b \in 1..NumBatches(Len(tickers_list)) |-> "none"]
    /\ batch_idx = [b \in 1..NumBatches(Len(tickers_list)) |-> 0]
    /\ batch_results = [b \in 1..NumBatches(Len(tickers_list)) |-> EmptyResults]
    /\ ticker_log = [t \in 1..Len(tickers_list) |-> NotCollected]
    /\ consumed = {}
    /\ total_success = 0
    /\ total_failed = 0
    /\ all_collected_tickers = <<>>
    /\ ticker_master = {}

\* the batches a pool thread is working on
Running == {b \in DOMAIN batch_pc : batch_pc[b] = "running"}

\* a free pool thread takes the oldest queued batch and runs lines 160-165
\* of collect_batch: IBDDatabase(...) returns a connection or raises, and
\* then the task ends with that exception
BatchOpen(b) ==
    /\ col_pc = "as_completed"
    /\ batch_pc[b] = "queued"
    /\ \A c \in 1..(b - 1) : batch_pc[c] # "queued"
    /\ Cardinality(Running) < MaxWorkers
    /\ \E opened \in BOOLEAN :
          /\ batch_pc' = [batch_pc EXCEPT ![b] = IF opened THEN "running" ELSE "raised"]
          /\ batch_conn' = [batch_conn EXCEPT ![b] = IF opened THEN "open" ELSE "none"]
    /\ UNCHANGED <<col_pc, tickers_list, batch_idx, batch_results, ticker_log,
                   consumed, total_success, total_failed,
                   all_collected_tickers, ticker_master>>

\* a variant of AfterTicker that leaves the loop at the first failure
AfterTickerStopOnFailure(idx, n, ok) == IF ok THEN idx + 1 ELSE n

\* line 167: the for loop goes on to the next ticker whatever the last
\* call returned (idx tickers of n done)
AfterTicker(idx, n, ok) == idx + 1

\* a variant of db_conn that passes the connection of the first batch
FirstConn(b) == 1

\* lines 160 and 168: the connection batch b passes to collect_ticker_data
\* is the one it opened, named by the batch
db_conn(b) == b

\* lines 167-172: one iteration of the loop of collect_batch
BatchTicker(b) ==
    /\ batch_pc[b] = "running"
    /\ batch_idx[b] < Len(batches[b])
    /\ \E r \in BatchResponses :
          LET ticker == batches[b][batch_idx[b] + 1]
              out == collect_ticker_data(r)
              res == batch_results[b]
          IN /\ ticker_log' = [ticker_log EXCEPT ![ticker] =
                    [calls |-> @.calls + 1, ret |-> out.ret,
                     raised |-> out.raised, trace |-> out.trace,
                     prices |-> r.prices,
                     income_q |-> IF InSeq("get_income_q", out.trace)
                                  THEN r.income_q ELSE None,
                     conn |-> db_conn(b), conn_state |-> batch_conn[db_conn(b)]]]
             /\ batch_results' = [batch_results EXCEPT ![b] =
                    IF out.ret
                    THEN [res EXCEPT !.success = @ + 1,
                                     !.tickers_collected = Append(@, ticker)]
                    ELSE [res EXCEPT !.failed = @ + 1]]
             /\ batch_idx' = [batch_idx EXCEPT ![b] =
                    AfterTicker(@, Len(batches[b]), out.ret)]
    /\ UNCHANGED <<col_pc, tickers_list, batch_pc, batch_conn, consumed,
                   total_success, total_failed, all_collected_tickers,
                   ticker_master>>

\* lines 173-176: finally db_conn.close(), return results
BatchClose(b) ==
    /\ batch_pc[b] = "running"
    /\ batch_idx[b] = Len(batches[b])
    /\ batch_conn' = [batch_conn EXCEPT ![b] = "closed"]
    /\ batch_pc' = [batch_pc EXCEPT ![b] = "done"]
    /\ UNCHANGED <<col_pc, tickers_list, batch_idx, batch_results, ticker_log,
                   consumed, total_success, total_failed,
                   all_collected_tickers, ticker_master>>

\* lines 204-216: as_completed yields a finished future; its results go
\* into the tallies, or result() raises and the except clause continues
MainResult(b) ==
    /\ col_pc = "as_completed"
    /\ b \notin consumed
    /\ batch_pc[b] \in {"done", "raised"}
    /\ consumed' = consumed \cup {b}
    /\ IF batch_pc[b] = "done"
       THEN /\ total_success' = total_success + batch_results[b].success
            /\ total_failed' = total_failed + batch_results[b].failed
            /\ all_collected_tickers' =
                  all_collected_tickers \o batch_results[b].tickers_collected
       ELSE UNCHANGED <<total_success, total_failed, all_collected_tickers>>
    /\ UNCHANGED <<col_pc, tickers_list, batch_pc, batch_conn, batch_idx,
                   batch_results, ticker_log, ticker_master>>

\* lines 218-228: the loop is over, the collected tickers go to the ticker
\* master and collect_all_data returns all_collected_tickers
MainReturn ==
    /\ col_pc = "as_completed"
    /\ consumed = DOMAIN batch_pc
    /\ ticker_master' = {all_collected_tickers[i] : i \in 1..Len(all_collected_tickers)}
    /\ col_pc' = "returned"
    /\ UNCHANGED <<tickers_list, batch_pc, batch_conn, batch_idx,
                   batch_results, ticker_log, consumed, total_success,
                   total_failed, all_collected_tickers>>

----------------------------------------------------------------------------
(* calculate_all_ratings: the rating loop (src/ibd_ratings_calculator.py,  *)
(* lines 907-951).  The four dicts are what lines 863-900 computed; a      *)
(* ticker that is not a key of a dict maps to None, as dict.get gives.     *)

\* the longest all_tickers
NumRated == 2

\* no rating run
RateIdle ==
    /\ all_tickers = <<>>
    /\ rs_ratings_dict = <<>>
    /\ eps_ratings_dict = <<>>
    /\ smr_ratings_dict = <<>>
    /\ industry_group_rs_ratings_dict = <<>>
    /\ ad_rating_of = <<>>
    /\ high_distance_of = <<>>
    /\ rate_idx = -1
    /\ rate_raised = {}
    /\ calculated_ratings = <<>>
    /\ calculated_count = 0

\* line 906: the dicts are computed and nothing is stored yet.  A ticker
\* has an Industry Group RS only if it has an RS value (lines 668-676),
\* hence an RS Rating.
InitRate ==
    /\ \E n \in 1..NumRated :
          /\ all_tickers = [i \in 1..n |-> i]
          /\ rs_ratings_dict \in [1..n -> {None, Num(5000)}]
          /\ eps_ratings_dict \in [1..n -> {None, Num(9000)}]
          /\ smr_ratings_dict \in [1..n -> {"None", "B"}]
          /\ industry_group_rs_ratings_dict \in [1..n -> {None, Num(10000)}]
          /\ ad_rating_of \in [1..n -> {"None", "D"}]
          /\ high_distance_of \in [1..n -> {None, Num(-1000)}]
          /\ calculated_ratings = [i \in 1..n |-> None]
    /\ \A t \in DOMAIN all_tickers :
          IsNum(industry_group_rs_ratings_dict[t]) => IsNum(rs_ratings_dict[t])
    /\ rate_idx = 0
    /\ rate_raised = {}
    /\ calculated_count = 0

\* lines 912-933: the six arguments of calculate_comp_rating for a ticker
RatingArgs(t) ==
    [rs_rating |-> rs_ratings_dict[t],
     eps_rating |-> eps_ratings_dict[t],
     ad_rating |-> ad_rating_of[t],
     smr_rating |-> smr_ratings_dict[t],
     industry_group_rs |-> industry_group_rs_ratings_dict[t],
     price_vs_52w_high |-> high_distance_of[t]]

\* lines 916-917: the guard of `continue`
SkipTicker(t) == ~IsNum(rs_ratings_dict[t]) /\ ~IsNum(eps_ratings_dict[t])

\* lines 907-951: one iteration.  A ticker with neither rating is skipped;
\* otherwise its row is computed and stored, unless a call of the
\* iteration raises and the except clause goes on to the next ticker.
RateTicker ==
    /\ rate_idx >= 0
    /\ rate_idx < Len(all_tickers)
    /\ rate_idx' = rate_idx + 1
    /\ LET ticker == all_tickers[rate_idx + 1] IN
       IF SkipTicker(ticker)
       THEN UNCHANGED <<calculated_ratings, calculated_count, rate_raised>>
       ELSE \E raises \in BOOLEAN :
               IF raises
               THEN /\ rate_raised' = rate_raised \cup {ticker}
                    /\ UNCHANGED <<calculated_ratings, calculated_count>>
               ELSE /\ calculated_ratings' = [calculated_ratings EXCEPT ![ticker] =
                          [args |-> RatingArgs(ticker),
                           comp_rating |-> calculate_comp_rating(RatingArgs(ticker))]]
                    /\ calculated_count' = calculated_count + 1
                    /\ UNCHANGED rate_raised
    /\ UNCHANGED <<all_tickers, rs_ratings_dict, eps_ratings_dict,
                   smr_ratings_dict, industry_group_rs_ratings_dict,
                   ad_rating_of, high_distance_of>>

----------------------------------------------------------------------------
(* calculate_eps_ratings, src/ibd_ratings_calculator.py:90-200 *)

\* lines 153-158: the weights, in hundredths
EW_LAST == 50
EW_PREV == 20
EW_ANNUAL == 20
EW_STABILITY == 10

\* the number of instruments with stored EPS components
MaxEps == 2

EpsComponents ==
    {"eps_growth_last_qtr", "eps_growth_prev_qtr", "annual_growth_rate",
     "stability_score"}

\* a variant of EpsWeight that weighs the four components alike
EpsWeightEqual(c) == 25

EpsWeight(c) ==
    CASE c = "eps_growth_last_qtr" -> EW_LAST
      [] c = "eps_growth_prev_qtr" -> EW_PREV
      [] c = "annual_growth_rate" -> EW_ANNUAL
      [] c = "stability_score" -> EW_STABILITY

\* lines 122-130: the dict of component c, the tickers in the order of
\* eps_components_dict, those with a None value left out
EpsComponentDict(d, c) ==
    SelectSeq([t \in 1..Len(d) |-> [ticker |-> t, value |-> d[t][c]]],
              LAMBDA e : e.value # None)

\* sum of f[c] over the elements c of set cs
RECURSIVE SumOver(_, _)
SumOver(cs, f) ==
    IF cs = {} THEN 0
    ELSE LET c == CHOOSE x \in cs : TRUE IN f[c] + SumOver(cs \ {c}, f)

\* a variant of EpsRatingsWith that divides by the weights of line 153-158
\* whatever the table w is
EpsRatingsOverCodeWeights(w, d) ==
    LET percentile == [c \in EpsComponents |->
                          calculate_percentile_ranking(EpsComponentDict(d, c))]
        all_tickers_eps == UNION {DOMAIN percentile[c] : c \in EpsComponents}
        has(t) == {c \in EpsComponents : t \in DOMAIN percentile[c]}
        total_score(t) ==
            SumOver(has(t), [c \in has(t) |-> percentile[c][t] * w[c]])
        total_weight(t) == SumOver(has(t), [c \in has(t) |-> EpsWeight(c)])
    IN  [t \in {u \in all_tickers_eps : total_weight(u) > 0} |->
            RoundDiv(total_score(t), total_weight(t))]

\* lines 140-200, `weights` being the table w
EpsRatingsWith(w, d) ==
    LET percentile == [c \in EpsComponents |->
                          calculate_percentile_ranking(EpsComponentDict(d, c))]
        all_tickers_eps == UNION {DOMAIN percentile[c] : c \in EpsComponents}
        has(t) == {c \in EpsComponents : t \in DOMAIN percentile[c]}
        total_score(t) ==
            SumOver(has(t), [c \in has(t) |-> percentile[c][t] * w[c]])
        total_weight(t) == SumOver(has(t), [c \in has(t) |-> w[c]])
    IN  [t \in {u \in all_tickers_eps : total_weight(u) > 0} |->
            RoundDiv(total_score(t), total_weight(t))]

\* lines 140-200 with the table of lines 153-158
calculate_eps_ratings(d) == EpsRatingsWith([c \in EpsComponents |-> EpsWeight(c)], d)

\* no call of calculate_eps_ratings under study
EpsIdle ==
    /\ eps_components_dict = <<>>
    /\ eps_pc = "idle"
    /\ eps_result = <<>>

\* the stored components of at most MaxEps instruments
InitEps ==
    /\ \E n \in 0..MaxEps :
          eps_components_dict \in
              [1..n -> [eps_growth_last_qtr : {None, NaN, Num(100), Num(250)},
                        eps_growth_prev_qtr : {None, Num(400)},
                        annual_growth_rate : {None, Num(1500)},
                        stability_score : {None, Num(8000)}]]
    /\ eps_pc = "call"
    /\ eps_result = <<>>

EpsCall ==
    /\ eps_pc = "call"
    /\ eps_result' = calculate_eps_ratings(eps_components_dict)
    /\ eps_pc' = "return"
    /\ UNCHANGED eps_components_dict

----------------------------------------------------------------------------
(* calculate_all_industry_group_rs, src/ibd_ratings_calculator.py:624-732. *)
(* An RS value read from the store is None or a number.  A missing         *)
(* industry or sector is the empty string.                                  *)

\* the number of instruments of the store
MaxMembers == 6

\* a variant of EnoughMembers that is content with two members
EnoughMembersTwo(rs_list) == Len(rs_list) >= 2

\* lines 689-691: the industry counts if it has at least 3 RS values
EnoughMembers(rs_list) == Len(rs_list) > 0 /\ Len(rs_list) >= 3

\* lines 661-671: the industry of a profile, the sector when the industry
\* is missing, "" when there is no profile or neither
IndustryOf(profile) ==
    IF profile = None THEN ""
    ELSE IF profile.industry # "" THEN profile.industry
    ELSE profile.sector

\* lines 656-679: is ticker t put into industry_tickers, ticker_to_info?
Grouped(t) == IndustryOf(company_profile[t]) # "" /\ all_rs_values[t] # None

\* industry_rs_values[industry]: the RS values of its grouped tickers
RsList(industry) ==
    LET members == SelectSeq([t \in 1..Len(company_profile) |-> t],
                       LAMBDA t : Grouped(t) /\ IndustryOf(company_profile[t]) = industry)
    IN [i \in 1..Len(members) |-> all_rs_values[members[i]].val]

\* the keys of industry_rs_values in insertion order: each industry at the
\* first grouped ticker that has it
IndustryKeys ==
    LET firsts == SelectSeq([t \in 1..Len(company_profile) |-> t],
                      LAMBDA t : /\ Grouped(t)
                                 /\ \A u \in 1..(t - 1) :
                                       ~(Grouped(u) /\ IndustryOf(company_profile[u])
                                                        = IndustryOf(company_profile[t])))
    IN [i \in 1..Len(firsts) |-> IndustryOf(company_profile[firsts[i]])]

RECURSIVE SeqSum(_)
SeqSum(l) == IF l = <<>> THEN 0 ELSE l[Len(l)] + SeqSum(SubSeq(l, 1, Len(l) - 1))

RECURSIVE Factorial(_)
Factorial(n) == IF n <= 1 THEN 1 ELSE n * Factorial(n - 1)

\* line 692: np.mean(rs_list), as a multiple of 1 / Factorial(number of
\* tickers) so that the means of lists of any length compare as integers
Mean(rs_list) ==
    SeqSum(rs_list) * (Factorial(Len(company_profile)) \div Len(rs_list))

\* lines 687-692: industry_avg_rs, as its items in insertion order
industry_avg_rs ==
    LET kept == SelectSeq(IndustryKeys, LAMBDA k : EnoughMembers(RsList(k)))
    IN [i \in 1..Len(kept) |->
           [ticker |-> kept[i], value |-> Num(Mean(RsList(kept[i])))]]

\* lines 698 and 724-732
calculate_all_industry_group_rs ==
    LET industry_rs_percentile == calculate_percentile_ranking(industry_avg_rs)
    IN [t \in {u \in 1..Len(company_profile) :
                  Grouped(u) /\ IndustryOf(company_profile[u])
                                   \in DOMAIN industry_rs_percentile} |->
           industry_rs_percentile[IndustryOf(company_profile[t])]]

\* no call of calculate_all_industry_group_rs under study
IgrIdle ==
    /\ all_rs_values = <<>>
    /\ company_profile = <<>>
    /\ igr_pc = "idle"
    /\ industry_group_rs_dict = <<>>

\* the store before the call: every ticker has a profile with industry
\* "A", a profile with sector "S" and no industry, or an RS value and no
\* profile; the RS values are pairwise different
InitIgr ==
    /\ company_profile \in
          [1..MaxMembers -> {None, [industry |-> "A", sector |-> "T"],
                                   [industry |-> "", sector |-> "S"]}]
    /\ \E valued \in SUBSET (1..MaxMembers) :
          all_rs_values = [t \in 1..MaxMembers |->
                              IF t \in valued THEN Num(10 * t) ELSE None]
    /\ \A t \in 1..MaxMembers : company_profile[t] = None => all_rs_values[t] # None
    /\ igr_pc = "call"
    /\ industry_group_rs_dict = <<>>

IgrCall ==
    /\ igr_pc = "call"
    /\ industry_group_rs_dict' = calculate_all_industry_group_rs
    /\ igr_pc' = "return"
    /\ UNCHANGED <<all_rs_values, company_profile>>

----------------------------------------------------------------------------
(* IBDScreeners: the six screeners (src/ibd_screeners.py:242-638).  What   *)
(* the store holds for a ticker is given by what the read calls return for *)
(* it: its rating row, its EPS components, its company profile, and the    *)
(* metrics the helpers derive from its price history (lines 48-228).       *)
(* Ratings and RS STS% are in hundredths; prices, volumes (thousands),     *)
(* market caps (millions) and growth percentages are whole numbers.        *)

\* a present string
Str(s) == [tag |-> "str", val |-> s]

\* the number of tickers of the snapshot the six screeners run on
MaxScreened == 2

ScreenerNames ==
    {"momentum_97", "explosive_eps_growth", "up_on_volume", "top_2_percent_rs",
     "4_percent_bullish_yesterday", "healthy_chart_watchlist"}

\* a variant of RsStsOk that wants more than 80
RsStsOkStrict(rs_sts) == IsNum(rs_sts) /\ rs_sts.val > 8000

\* lines 323-328 (and 384-389, 467-472, 567-572): the ticker goes on when
\* rs_sts is not None and not rs_sts < 80
RsStsOk(rs_sts) == rs_sts # None /\ ~(rs_sts.val < 8000)

\* lines 118-124: get_price_vs_50ma is None without moving averages,
\* otherwise (price - 50ma) / 50ma * 100; here its sign matters only
PriceVs50maNonNegative(ma_data) ==
    ma_data # None /\ ma_data.ma50 > 0 /\ ma_data.price - ma_data.ma50 >= 0

\* lines 230-238: check_rs_line_new_high
check_rs_line_new_high(rating) ==
    rating # None /\ rating.price_vs_52w_high # None
                  /\ rating.price_vs_52w_high.val >= -500

\* lines 257-264: the tickers of performance_data, in the order of
\* tickers_list: those with price metrics and all three returns
performance_data(st) ==
    SelectSeq([t \in 1..Len(st) |-> t],
              LAMBDA t : /\ st[t].price_metrics # None
                         /\ st[t].price_metrics.pct_1m # None
                         /\ st[t].price_metrics.pct_3m # None
                         /\ st[t].price_metrics.pct_6m # None)

\* lines 267-273 and 282-284: is the rank of ticker t for the return `key`
\* at least 97, the rank being ((idx + 1) / total) * 100 in the stable
\* ascending order of the values
RankAtLeast97(st, key, t) ==
    LET perf == performance_data(st)
        sorted_items == sorted_by_value(
            [i \in 1..Len(perf) |->
                [ticker |-> perf[i], value |-> st[perf[i]].price_metrics[key]]])
        total == Len(sorted_items)
        idx == (CHOOSE i \in 1..total : sorted_items[i].ticker = t) - 1
    IN (idx + 1) * 100 >= 97 * total

\* lines 242-288
screener_momentum_97(st) ==
    SelectSeq(performance_data(st),
              LAMBDA t : /\ RankAtLeast97(st, "pct_1m", t)
                         /\ RankAtLeast97(st, "pct_3m", t)
                         /\ RankAtLeast97(st, "pct_6m", t))

\* lines 315-351: does the loop body append the ticker with inputs x?
ExplosiveEpsGrowthPasses(x) ==
    /\ x.rating # None
    /\ ~(x.rating.rs_rating = None \/ x.rating.rs_rating.val < 8000)
    /\ RsStsOk(x.rs_sts)
    /\ x.eps_components # None
    /\ ~(x.eps_components.eps_growth_last_qtr = None
         \/ x.eps_components.eps_growth_last_qtr.val < 100)
    /\ ~(x.volume_metrics = None \/ x.volume_metrics.avg_vol_50 < 100)
    /\ PriceVs50maNonNegative(x.moving_averages)

\* lines 376-437
UpOnVolumePasses(x) ==
    /\ x.rating # None
    /\ ~(x.rating.rs_rating = None \/ x.rating.rs_rating.val < 8000)
    /\ RsStsOk(x.rs_sts)
    /\ x.rating.ad_rating \in {"A", "B", "C"}
    /\ x.price_metrics # None
    /\ ~(x.price_metrics.pct_change_1d < 0)
    /\ ~(x.price_metrics.price < 10)
    /\ x.volume_metrics # None
    /\ ~(x.volume_metrics.avg_vol_50 < 100)
    /\ ~(x.volume_metrics.vol_change_pct < 20)
    /\ ~(x.company_profile = None \/ x.company_profile.market_cap = None)
    /\ ~(x.company_profile.market_cap.val < 250)
    /\ x.eps_components # None
    /\ ~(x.eps_components.eps_growth_last_qtr = None
         \/ x.eps_components.eps_growth_last_qtr.val < 20)

\* lines 493-498: the sector check.  Without a profile nothing is checked;
\* with a profile whose sector is None, .lower() raises and the except
\* clause of line 501 skips the ticker
SectorCheckPasses(profile) ==
    IF profile = None THEN TRUE
    ELSE IF profile.sector = None THEN FALSE
    ELSE profile.sector.val \notin {"Healthcare", "Medical Devices"}

\* lines 459-502
Top2PercentRsPasses(x) ==
    /\ x.rating # None
    /\ ~(x.rating.rs_rating = None \/ x.rating.rs_rating.val < 9800)
    /\ RsStsOk(x.rs_sts)
    /\ x.moving_averages # None
    /\ (x.moving_averages.ma10 > x.moving_averages.ma21
        /\ x.moving_averages.ma21 > x.moving_averages.ma50)
    /\ x.volume_metrics # None
    /\ ~(x.volume_metrics.avg_vol_50 < 100)
    /\ ~(x.volume_metrics.current_volume < 100)
    /\ SectorCheckPasses(x.company_profile)

\* lines 526-576
Bullish4PercentPasses(x) ==
    /\ x.price_metrics # None
    /\ ~(x.price_metrics.price < 1)
    /\ ~(x.price_metrics.pct_change_1d <= 4)
    /\ ~(x.price_metrics.change_from_open <= 0)
    /\ x.volume_metrics # None
    /\ ~(x.volume_metrics.current_volume <= 100)
    /\ ~(x.volume_metrics.rel_volume <= 100)
    /\ ~(x.volume_metrics.avg_vol_90 <= 100)
    /\ ~(x.company_profile = None \/ x.company_profile.market_cap = None)
    /\ ~(x.company_profile.market_cap.val <= 250)
    /\ RsStsOk(x.rs_sts)

\* lines 599-635
HealthyChartPasses(x) ==
    /\ x.rating # None
    /\ ~(x.rating.rs_rating = None \/ x.rating.rs_rating.val < 9000)
    /\ ~(x.rating.comp_rating = None \/ x.rating.comp_rating.val < 8000)
    /\ x.rating.ad_rating \in {"A", "B"}
    /\ x.moving_averages # None
    /\ (x.moving_averages.ma10 > x.moving_averages.ma21
        /\ x.moving_averages.ma21 > x.moving_averages.ma50)
    /\ (x.moving_averages.ma50 > x.moving_averages.ma150
        /\ x.moving_averages.ma150 > x.moving_averages.ma200)
    /\ check_rs_line_new_high(x.rating)
    /\ ~(x.volume_metrics = None \/ x.volume_metrics.avg_vol_50 < 100)

\* the list a screener returns on store st: the tickers its loop appends,
\* in the order of get_all_ratings / get_all_tickers
RunScreener(name, st) ==
    LET all == [t \in 1..Len(st) |-> t] IN
    CASE name = "momentum_97" -> screener_momentum_97(st)
      [] name = "explosive_eps_growth" ->
            SelectSeq(all, LAMBDA t : ExplosiveEpsGrowthPasses(st[t]))
      [] name = "up_on_volume" ->
            SelectSeq(all, LAMBDA t : UpOnVolumePasses(st[t]))
      [] name = "top_2_percent_rs" ->
            SelectSeq(all, LAMBDA t : Top2PercentRsPasses(st[t]))
      [] name = "4_percent_bullish_yesterday" ->
            SelectSeq(all, LAMBDA t : Bullish4PercentPasses(st[t]))
      [] name = "healthy_chart_watchlist" ->
            SelectSeq(all, LAMBDA t : HealthyChartPasses(st[t]))

\* what the store can hold for one ticker
RatingRows ==
    {None} \cup [rs_rating : {None, Num(9800)}, ad_rating : {"None", "B"},
                 comp_rating : {None, Num(8000)},
                 price_vs_52w_high : {None, Num(-300)}]

RsStsValues == {None, Num(7999), Num(8000)}

EpsRows == {None} \cup [eps_growth_last_qtr : {None, Num(100)}]

\* get_price_metrics: None under 2 bars; the 6-month return is None under
\* 126 bars
PriceMetricsValues ==
    {None} \cup [price : {50}, pct_change_1d : {5}, change_from_open : {1},
                 pct_1m : {Num(10)}, pct_3m : {Num(20)}, pct_6m : {None, Num(30)}]

\* get_volume_metrics: None under 90 bars; rel_volume in hundredths
VolumeMetricsValues ==
    {None, [avg_vol_50 |-> 200, avg_vol_90 |-> 150, current_volume |-> 300,
            vol_change_pct |-> 50, rel_volume |-> 150]}

\* get_moving_averages: None under 200 bars
MovingAverageValues ==
    {None, [ma10 |-> 50, ma21 |-> 48, ma50 |-> 45, ma150 |-> 40, ma200 |-> 35,
            price |-> 50]}

Profiles ==
    {None} \cup [market_cap : {None, Num(300)}, sector : {Str("Technology")}]
           \cup [market_cap : {Num(300)}, sector : {None, Str("Healthcare")}]

ScreenInputs ==
    [rating : RatingRows, rs_sts : RsStsValues, eps_components : EpsRows,
     price_metrics : PriceMetricsValues, volume_metrics : VolumeMetricsValues,
     moving_averages : MovingAverageValues, company_profile : Profiles]

\* the tickers of the snapshots of several tickers: everything there but
\* possibly the profile, RS STS% on either side of 80, and two return
\* histories for the ranks of momentum_97
SnapshotInputs ==
    {x \in ScreenInputs :
        /\ x.rating # None /\ x.rating.rs_rating # None /\ x.rating.ad_rating = "B"
        /\ x.rating.comp_rating # None /\ x.rating.price_vs_52w_high # None
        /\ x.rs_sts # None
        /\ x.eps_components # None /\ x.eps_components.eps_growth_last_qtr # None
        /\ x.price_metrics # None /\ x.price_metrics.pct_6m # None
        /\ x.volume_metrics # None
        /\ x.moving_averages # None
        /\ x.company_profile \in {None, [market_cap |-> Num(300), sector |-> Str("Technology")]}}
    \cup
    {[x EXCEPT !.price_metrics.pct_1m = Num(15), !.price_metrics.pct_3m = Num(12)] :
        x \in {y \in ScreenInputs :
                 /\ y.rating # None /\ y.rating.rs_rating # None /\ y.rating.ad_rating = "B"
                 /\ y.rating.comp_rating # None /\ y.rating.price_vs_52w_high # None
                 /\ y.rs_sts = Num(8000)
                 /\ y.eps_components # None /\ y.eps_components.eps_growth_last_qtr # None
                 /\ y.price_metrics # None /\ y.price_metrics.pct_6m # None
                 /\ y.volume_metrics # None
                 /\ y.moving_averages # None
                 /\ y.company_profile # None /\ y.company_profile.market_cap # None
                 /\ y.company_profile.sector # None}}

\* a variant of StoreAfterScreener in which a screener uses up the RS STS%
StoreAfterScreenerClearing(st) == [t \in 1..Len(st) |-> [st[t] EXCEPT !.rs_sts = None]]

\* lines 242-638: the screeners call self.db.get_* only, so the store after
\* a screener is the store before it
StoreAfterScreener(st) == st

\* no screener run under study
ScreenIdle ==
    /\ store = <<>>
    /\ snapshot = <<>>
    /\ screened = {}
    /\ screener_results = <<>>

\* a snapshot of MaxScreened tickers, no screener run yet
InitScreen ==
    /\ store \in [1..MaxScreened -> SnapshotInputs]
    /\ snapshot = store
    /\ screened = {}
    /\ screener_results = [n \in ScreenerNames |-> <<>>]

\* a snapshot of one ticker with any inputs, no screener run yet
InitScreenOne ==
    /\ store \in [1..1 -> ScreenInputs]
    /\ snapshot = store
    /\ screened = {}
    /\ screener_results = [n \in ScreenerNames |-> <<>>]

\* one call of the screener `name`
Screen(name) ==
    /\ store # <<>>
    /\ name \notin screened
    /\ screener_results' = [screener_results EXCEPT ![name] = RunScreener(name, store)]
    /\ store' = StoreAfterScreener(store)
    /\ screened' = screened \cup {name}
    /\ UNCHANGED snapshot

----------------------------------------------------------------------------
(* Full runs: run_full_collection, src/ibd_data_collector.py:515-562, then  *)
(* calculate_all_ratings, src/ibd_ratings_calculator.py:862-951, as        *)
(* src/scripts/daily_workflow.py:112-127 runs them, day after day on the   *)
(* same store.  The store module is not part of the sources; its rows are  *)
(* set and got by instrument and all known instruments are enumerated, as  *)
(* the store contract says.  A row is represented by the number of the run *)
(* that wrote it.                                                           *)

\* the number of instruments upstream
NumInstruments == 2

\* the number of runs followed
MaxRuns == 2

Instruments == 1..NumInstruments

\* insert_calculated_rs / _eps / _rating: set the row of each instrument in
\* `written`, leave the other rows as they are
SetRows(table, written, r) ==
    [t \in Instruments |-> IF t \in written THEN r ELSE table[t]]

\* get_all_rs_values / get_all_eps_components: the instruments with a row
AllRows(table) == {t \in Instruments : table[t] # 0}

\* no run under study
RunIdle ==
    /\ run_no = 0
    /\ run_phase = "idle"
    /\ collected_tickers = {}
    /\ db_tickers = {}
    /\ db_calculated_rs = <<>>
    /\ db_calculated_eps = <<>>
    /\ db_calculated_ratings = <<>>
    /\ rs_values_dict = {}

\* the first run starts on an empty store
InitRun ==
    /\ run_no = 1
    /\ run_phase = "collect_all_data"
    /\ collected_tickers = {}
    /\ db_tickers = {}
    /\ db_calculated_rs = [t \in Instruments |-> 0]
    /\ db_calculated_eps = [t \in Instruments |-> 0]
    /\ db_calculated_ratings = [t \in Instruments |-> 0]
    /\ rs_values_dict = {}

\* src/ibd_data_collector.py:546 and 224-228: collect_all_data returns the
\* instruments whose collection succeeded and adds them to the ticker master
collect_all_data ==
    /\ run_phase = "collect_all_data"
    /\ \E succeeded \in SUBSET Instruments :
          /\ collected_tickers' = succeeded
          /\ db_tickers' = db_tickers \cup succeeded
    /\ run_phase' = "calculate_and_store_rs_values"
    /\ UNCHANGED <<run_no, db_calculated_rs, db_calculated_eps,
                   db_calculated_ratings, rs_values_dict>>

\* src/ibd_data_collector.py:232-262, called with collected_tickers: a row
\* is written for the collected instruments that have 252 bars in the
\* window read and an RS value; nothing else is written or removed
calculate_and_store_rs_values ==
    /\ run_phase = "calculate_and_store_rs_values"
    /\ \E derived \in SUBSET collected_tickers :
          db_calculated_rs' = SetRows(db_calculated_rs, derived, run_no)
    /\ run_phase' = "calculate_and_store_eps_components"
    /\ UNCHANGED <<run_no, collected_tickers, db_tickers, db_calculated_eps,
                   db_calculated_ratings, rs_values_dict>>

\* src/ibd_data_collector.py:293-326, called with collected_tickers
calculate_and_store_eps_components ==
    /\ run_phase = "calculate_and_store_eps_components"
    /\ \E derived \in SUBSET collected_tickers :
          db_calculated_eps' = SetRows(db_calculated_eps, derived, run_no)
    /\ run_phase' = "calculate_all_ratings"
    /\ UNCHANGED <<run_no, collected_tickers, db_tickers, db_calculated_rs,
                   db_calculated_ratings, rs_values_dict>>

\* src/ibd_ratings_calculator.py:870 and 906-914: of all known tickers,
\* those that have an RS rating or an EPS rating are rated
RatedTickers(rs_rated, eps_rated) ==
    {t \in db_tickers : ~(t \notin rs_rated /\ t \notin eps_rated)}

\* src/ibd_ratings_calculator.py:862-951: the RS and EPS ratings rank every
\* row of the store; a rating row is written for each rated ticker
calculate_all_ratings ==
    /\ run_phase = "calculate_all_ratings"
    /\ rs_values_dict' = AllRows(db_calculated_rs)
    /\ db_calculated_ratings' =
          SetRows(db_calculated_ratings,
                  RatedTickers(AllRows(db_calculated_rs), AllRows(db_calculated_eps)),
                  run_no)
    /\ run_phase' = "done"
    /\ UNCHANGED <<run_no, collected_tickers, db_tickers, db_calculated_rs,
                   db_calculated_eps>>

\* the workflow is started again on the same store
NextFullRun ==
    /\ run_phase = "done"
    /\ run_no < MaxRuns
    /\ run_no' = run_no + 1
    /\ run_phase' = "collect_all_data"
    /\ collected_tickers' = {}
    /\ UNCHANGED <<db_tickers, db_calculated_rs, db_calculated_eps,
                   db_calculated_ratings, rs_values_dict>>

----------------------------------------------------------------------------
(* calculate_eps_components, src/ibd_data_collector.py:333-415.  A         *)
(* statement is a record of its eps field: Lacking when the statement has  *)
(* no such key, None when it is null, else a whole number.  Growth rates   *)
(* and the stability score are numbers of hundredths of a percent, the     *)
(* square roots in them rounded down.                                       *)

\* the statement has no eps key
Lacking == [tag |-> "lacking"]

\* lines 393-395: the first eight quarters
QuarterLimit == 8

\* line 379: at least three annual statements
MinAnnual == 3

\* line 398: at least six positive quarters
MinPositive == 6

\* stmt.get('eps', 0)
GetEps(stmt) == IF stmt.eps = Lacking THEN Num(0) ELSE stmt.eps

\* the truth value Python gives to an eps value: None and 0 are false
EpsTruthy(v) == v # None /\ v.val # 0

\* lines 356-359 and 368-371: ((eps - yoy) / abs(yoy)) * 100 when yoy is
\* true and eps is not None
YoYGrowth(eps, yoy) ==
    IF EpsTruthy(yoy) /\ yoy.val # 0 /\ eps # None
    THEN Num(((eps.val - yoy.val) * 10000) \div Abs(yoy.val))
    ELSE None

RECURSIVE ISqrtBetween(_, _, _)
\* the largest r in lo..hi with r * r <= n
ISqrtBetween(n, lo, hi) ==
    IF lo >= hi THEN lo
    ELSE LET mid == (lo + hi + 1) \div 2
         IN IF mid * mid <= n THEN ISqrtBetween(n, mid, hi)
            ELSE ISqrtBetween(n, lo, mid - 1)

\* the square root of n, rounded down
ISqrt(n) == ISqrtBetween(n, 0, 46340)

\* lines 377-389: the CAGR over the first three annual statements
AnnualGrowthRate(annual) ==
    IF Len(annual) >= MinAnnual
    THEN LET first == GetEps(annual[1])
             last == GetEps(annual[3])
         IN IF first = None \/ last = None
            THEN None    \* None is false
            ELSE IF first.val > 0 /\ last.val > 0
            THEN Num(ISqrt((first.val * 100000000) \div last.val) - 10000)
            ELSE None
    ELSE None

\* a variant of PositiveEps that keeps the quarters with an eps of 0 too
PositiveEpsOrZero(quarterly) ==
    LET eps_last_8q == [i \in 1..Min(QuarterLimit, Len(quarterly)) |-> GetEps(quarterly[i])]
        kept == SelectSeq(eps_last_8q, LAMBDA v : v # None /\ v.val >= 0)
    IN [i \in 1..Len(kept) |-> kept[i].val]

\* lines 395-396: the positive eps values of the first eight quarters
PositiveEps(quarterly) ==
    LET eps_last_8q == [i \in 1..Min(QuarterLimit, Len(quarterly)) |-> GetEps(quarterly[i])]
        kept == SelectSeq(eps_last_8q, LAMBDA v : v # None /\ v.val > 0)
    IN [i \in 1..Len(kept) |-> kept[i].val]

RECURSIVE SumSquares(_)
SumSquares(l) ==
    IF l = <<>> THEN 0 ELSE l[Len(l)] * l[Len(l)] + SumSquares(SubSeq(l, 1, Len(l) - 1))

\* lines 391-410: max(0, 100 - 100 * std / mean) of the positive quarters
StabilityScore(quarterly) ==
    IF Len(quarterly) >= QuarterLimit
    THEN LET l == PositiveEps(quarterly)
             n == Len(l)
         IN IF n >= MinPositive
            THEN Num(Max(0, 10000 - 10 * ISqrt((1000000 * (n * SumSquares(l) - SeqSum(l) * SeqSum(l)))
                                                 \div (SeqSum(l) * SeqSum(l)))))
            ELSE None
    ELSE None

\* lines 346-412
calculate_eps_components(quarterly, annual) ==
    IF Len(quarterly) < MinQuarters THEN None
    ELSE [eps_growth_last_qtr |-> YoYGrowth(GetEps(quarterly[1]), GetEps(quarterly[5])),
          eps_growth_prev_qtr |->
              IF Len(quarterly) >= 6
              THEN YoYGrowth(GetEps(quarterly[2]), GetEps(quarterly[6]))
              ELSE None,
          annual_growth_rate |-> AnnualGrowthRate(annual),
          stability_score |-> StabilityScore(quarterly)]

\* no call of calculate_eps_components under study
EcIdle ==
    /\ income_statements_quarterly = <<>>
    /\ income_statements_annual = <<>>
    /\ ec_pc = "idle"
    /\ ec_result = None

\* the statements of one ticker: 4 to 8 quarters, the eps of quarters 0,
\* 1, 2, 4 and 5 lacking, null or a number, that of the others 1; no
\* annual statement or three
InitEc ==
    /\ \E n \in {4, 5, 6, QuarterLimit} :
       \E q0 \in {Lacking, None, Num(0), Num(1), Num(2)} :
       \E q1 \in {Lacking, None, Num(1), Num(2)} :
       \E q2 \in {Lacking, Num(1)} :
       \E q4 \in {Lacking, None, Num(0), Num(1), Num(-1)} :
       \E q5 \in {Lacking, Num(1)} :
          income_statements_quarterly =
              [i \in 1..n |-> [eps |-> CASE i = 1 -> q0 [] i = 2 -> q1 [] i = 3 -> q2
                                         [] i = 5 -> q4 [] i = 6 -> q5
                                         [] OTHER -> Num(1)]]
    /\ income_statements_annual \in
          {<<>>,
           <<[eps |-> Num(4)], [eps |-> Num(2)], [eps |-> Num(1)]>>,
           <<[eps |-> Lacking], [eps |-> Num(2)], [eps |-> Num(1)]>>}
    /\ ec_pc = "call"
    /\ ec_result = None

EcCall ==
    /\ ec_pc = "call"
    /\ ec_result' = calculate_eps_components(income_statements_quarterly,
                                             income_statements_annual)
    /\ ec_pc' = "return"
    /\ UNCHANGED <<income_statements_quarterly, income_statements_annual>>

----------------------------------------------------------------------------
(* calculate_smr_ratings, src/ibd_ratings_calculator.py:304-427 *)

\* lines 366-371: the weights, in hundredths
SW_SALES == 40
SW_PRETAX == 20
SW_AFTERTAX == 20
SW_ROE == 20

\* lines 414-420: the least scores of the letters A to D, in hundredths
SMR_A == 8000
SMR_B == 6000
SMR_C == 4000
SMR_D == 2000

\* the number of instruments with stored SMR components
MaxSmr == 3

SmrComponents ==
    {"avg_sales_growth_3q", "pretax_margin_annual", "aftertax_margin_quarterly",
     "roe_annual"}

SmrWeight(c) ==
    CASE c = "avg_sales_growth_3q" -> SW_SALES
      [] c = "pretax_margin_annual" -> SW_PRETAX
      [] c = "aftertax_margin_quarterly" -> SW_AFTERTAX
      [] c = "roe_annual" -> SW_ROE

\* lines 339-347: the dict of component c, the tickers in the order of
\* smr_components_dict, those with a None value left out
SmrComponentDict(d, c) ==
    SelectSeq([t \in 1..Len(d) |-> [ticker |-> t, value |-> d[t][c]]],
              LAMBDA e : e.value # None)

\* a variant of SmrLetter whose letters start above their least scores
SmrLetterStrict(score) ==
    IF score > SMR_A THEN "A"
    ELSE IF score > SMR_B THEN "B"
    ELSE IF score > SMR_C THEN "C"
    ELSE IF score > SMR_D THEN "D"
    ELSE "E"

\* lines 413-423
SmrLetter(score) ==
    IF score >= SMR_A THEN "A"
    ELSE IF score >= SMR_B THEN "B"
    ELSE IF score >= SMR_C THEN "C"
    ELSE IF score >= SMR_D THEN "D"
    ELSE "E"

\* lines 357-409: smr_scores_dict, `weights` being the table w
SmrScoresWith(w, d) ==
    LET percentile == [c \in SmrComponents |->
                          calculate_percentile_ranking(SmrComponentDict(d, c))]
        all_tickers_smr == UNION {DOMAIN percentile[c] : c \in SmrComponents}
        has(t) == {c \in SmrComponents : t \in DOMAIN percentile[c]}
        total_score(t) ==
            SumOver(has(t), [c \in has(t) |-> percentile[c][t] * w[c]])
        total_weight(t) == SumOver(has(t), [c \in has(t) |-> w[c]])
    IN  [t \in {u \in all_tickers_smr : total_weight(u) > 0} |->
            RoundDiv(total_score(t), total_weight(t))]

\* lines 357-409 with the table of lines 366-371
smr_scores_dict(d) == SmrScoresWith([c \in SmrComponents |-> SmrWeight(c)], d)

\* lines 325-427
calculate_smr_ratings(d) ==
    IF d = <<>> THEN <<>>
    ELSE LET scores == smr_scores_dict(d)
         IN [t \in DOMAIN scores |-> SmrLetter(scores[t])]

\* no call of calculate_smr_ratings under study
SmrIdle ==
    /\ smr_components_dict = <<>>
    /\ smr_pc = "idle"
    /\ smr_result = <<>>

\* the sets of components an instrument has in the store
SmrPatterns ==
    {{}, {"avg_sales_growth_3q"}, {"roe_annual"},
     {"avg_sales_growth_3q", "pretax_margin_annual"},
     {"pretax_margin_annual", "aftertax_margin_quarterly"},
     {"avg_sales_growth_3q", "pretax_margin_annual", "aftertax_margin_quarterly"},
     {"pretax_margin_annual", "aftertax_margin_quarterly", "roe_annual"},
     SmrComponents}

\* the stored components of at most MaxSmr instruments: each has one of
\* the patterns; a value grows with the ticker, the ROE either that way or
\* turned by one place; the sales growth of the first may be NaN
InitSmr ==
    /\ \E n \in 0..MaxSmr :
       \E pattern \in [1..n -> SmrPatterns] :
       \E turned \in BOOLEAN :
       \E nan \in 0..Min(n, 1) :
          smr_components_dict =
              [t \in 1..n |->
                  [c \in SmrComponents |->
                      IF c \notin pattern[t] THEN None
                      ELSE IF c = "avg_sales_growth_3q" /\ t = nan THEN NaN
                      ELSE IF c = "roe_annual" /\ turned THEN Num(100 * ((t % n) + 1))
                      ELSE Num(100 * t)]]
    /\ smr_pc = "call"
    /\ smr_result = <<>>

SmrCall ==
    /\ smr_pc = "call"
    /\ smr_result' = calculate_smr_ratings(smr_components_dict)
    /\ smr_pc' = "return"
    /\ UNCHANGED smr_components_dict

----------------------------------------------------------------------------
(* calculate_ad_rating, src/ibd_ratings_calculator.py:431-516.  A bar is a *)
(* record of whole numbers close, high, low and volume.  The arithmetic is *)
(* exact: the combined score is kept as a fraction num / den, den > 0.     *)
(* The bars considered have high - low of 0 or 1, so that the money flow   *)
(* multiplier is a whole number.                                            *)

\* lines 442 and 447: the 65 last bars
AdWindow == 65

\* the thresholds of lines 502-508, in twentieths
AD_A == 8
AD_B == 3
AD_C == -3
AD_D == -8

\* prices_df.tail(65)
Tail65(df) == SubSeq(df, Len(df) - AdWindow + 1, Len(df))

\* lines 455-458: ((close - low) - (high - close)) / (high - low), the
\* divisor 0.0001 when high = low
MoneyFlowMultiplier(bar) ==
    IF bar.high - bar.low = 0
    THEN ((bar.close - bar.low) - (bar.high - bar.close)) * 10000
    ELSE ((bar.close - bar.low) - (bar.high - bar.close)) \div (bar.high - bar.low)

\* line 461
MoneyFlowVolume(bar) == MoneyFlowMultiplier(bar) * bar.volume

\* lines 464-468: the days of the window, from its second bar, whose close
\* is above (below) that of the bar before
UpDays(w) == {i \in 2..Len(w) : w[i].close > w[i - 1].close}
DownDays(w) == {i \in 2..Len(w) : w[i].close < w[i - 1].close}

\* line 471: np.linspace(0.5, 1.5, 64), times 126, for the i-th bar
LinWeight(i) == 63 + 2 * (i - 2)

\* a variant of ScoreAtLeast that leaves the threshold itself out
ScoreAbove(score, t) == 20 * score.num > t * score.den

\* lines 502-508: combined_score >= t / 20, for a score num / den and t
\* in twentieths
ScoreAtLeast(score, t) == 20 * score.num >= t * score.den

\* lines 473-499: the combined score of window w, which has up and down
\* days
CombinedScore(w) ==
    LET days == 1..Len(w)
        mfv == [i \in days |-> MoneyFlowVolume(w[i])]
        up == SumOver(UpDays(w), [i \in UpDays(w) |-> LinWeight(i) * mfv[i]])
        up_w == SumOver(UpDays(w), [i \in UpDays(w) |-> LinWeight(i)])
        down == SumOver(DownDays(w), [i \in DownDays(w) |-> LinWeight(i) * mfv[i]])
        down_w == SumOver(DownDays(w), [i \in DownDays(w) |-> LinWeight(i)])
        total_mfv == SumOver(days, mfv)
        \* total_mfv / (abs(avg_mfv) * len), 0 when avg_mfv is 0
        normalized_score == IF total_mfv > 0 THEN 1 ELSE IF total_mfv < 0 THEN -1 ELSE 0
    IN  IF down # 0
        \* vol_ratio = (up / up_w) / abs(down / down_w)
        THEN [num |-> 6 * normalized_score * up_w * Abs(down)
                         + 4 * (up * down_w - up_w * Abs(down)),
              den |-> 10 * up_w * Abs(down)]
        \* vol_ratio = 1
        ELSE [num |-> 6 * normalized_score, den |-> 10]

\* lines 442-443: too few bars
TooFewBars(df) == df = None \/ Len(df) < AdWindow

\* the combined score the call computes, None when it computes none
CombinedScoreOf(df) ==
    IF TooFewBars(df) THEN None
    ELSE IF UpDays(Tail65(df)) # {} /\ DownDays(Tail65(df)) # {}
    THEN CombinedScore(Tail65(df))
    ELSE None

\* lines 431-516
calculate_ad_rating(df) ==
    IF TooFewBars(df) THEN "None"
    ELSE LET score == CombinedScoreOf(df) IN
         IF score = None THEN "C"
         ELSE IF ScoreAtLeast(score, AD_A) THEN "A"
         ELSE IF ScoreAtLeast(score, AD_B) THEN "B"
         ELSE IF ScoreAtLeast(score, AD_C) THEN "C"
         ELSE IF ScoreAtLeast(score, AD_D) THEN "D"
         ELSE "E"

\* no call of calculate_ad_rating under study
AdIdle ==
    /\ price_history = <<>>
    /\ ad_pc = "idle"
    /\ combined_score = None
    /\ ad_result = "None"

\* n bars whose close starts at 100, goes up by 1 on the days of ups and
\* down by 1 on the days of downs; on an up day the multiplier is mfm_u and
\* the volume vol_u (twice that on a second up day), on a down day mfm_d
\* and vol_d; bar 10 has the money flow volume flow; any other bar has
\* high = low = close
Bars(n, ups, downs, mfm_u, vol_u, mfm_d, vol_d, flow) ==
    [k \in 1..n |->
        LET c == 100 + Cardinality({u \in ups : u <= k}) - Cardinality({d \in downs : d <= k})
            mfm == IF k \in ups THEN mfm_u
                   ELSE IF k \in downs THEN mfm_d
                   ELSE IF k = 10 /\ flow > 0 THEN 1
                   ELSE IF k = 10 /\ flow < 0 THEN -1
                   ELSE 0
            vol == IF k \in ups THEN (IF k = 2 THEN vol_u ELSE 2 * vol_u)
                   ELSE IF k \in downs THEN vol_d
                   ELSE IF k = 10 THEN Abs(flow)
                   ELSE 5
        IN [close |-> c,
            high |-> IF mfm = 1 THEN c ELSE IF mfm = -1 THEN c + 1 ELSE c,
            low |-> IF mfm = 1 THEN c - 1 ELSE IF mfm = -1 THEN c ELSE c,
            volume |-> vol]]

\* the price history of the ticker: none, or 0, 64, 65 or 66 bars
InitAd ==
    /\ \/ price_history = None
       \/ \E n \in {0, AdWindow - 1, AdWindow, AdWindow + 1} :
          \E ups \in SUBSET {2, 20} :
          \E downs \in SUBSET {3, 50} :
          \E mfm_u \in {1, -1} : \E vol_u \in {1, 3, 7} :
          \E mfm_d \in {1, -1} : \E vol_d \in {2, 8} :
          \E flow \in {0, -2, 16} :
             price_history = Bars(n, ups, downs, mfm_u, vol_u, mfm_d, vol_d, flow)
    /\ ad_pc = "call"
    /\ combined_score = None
    /\ ad_result = "None"

AdCall ==
    /\ ad_pc = "call"
    /\ combined_score' = CombinedScoreOf(price_history)
    /\ ad_result' = calculate_ad_rating(price_history)
    /\ ad_pc' = "return"
    /\ UNCHANGED price_history

----------------------------------------------------------------------------
(* calculate_rs_value, src/ibd_data_collector.py:264-289.  A close is a    *)
(* whole number.  The arithmetic is exact: a rate of change and the RS     *)
(* value are kept as fractions num / den, den > 0.                          *)

\* line 271: the least number of bars
RsMinBars == 252

\* lines 278-281: the four look-back periods
RocPeriods == <<63, 126, 189, 252>>

\* line 284: the weights of the four periods, in tenths
RocWeights == <<4, 2, 2, 2>>

\* close[-k]
FromEnd(close, k) == close[Len(close) - k + 1]

\* a variant of Roc that leaves out the subtraction of 1
RocRatio(last, base) ==
    IF base # 0 THEN [num |-> last * 100, den |-> base]
    ELSE [num |-> 0, den |-> 1]

\* lines 278-281: (close[-1] / close[-k] - 1) * 100 if close[-k] != 0 else 0
Roc(last, base) ==
    IF base # 0 THEN [num |-> (last - base) * 100, den |-> base]
    ELSE [num |-> 0, den |-> 1]

\* line 284: 0.4 * roc_63d + 0.2 * roc_126d + 0.2 * roc_189d + 0.2 * roc_252d
WeightedRoc(roc) ==
    LET dens == roc[1].den * roc[2].den * roc[3].den * roc[4].den
        term(i) == RocWeights[i] * roc[i].num * (dens \div roc[i].den)
    IN [num |-> term(1) + term(2) + term(3) + term(4), den |-> 10 * dens]

NoRsValue ==
    [rs_value |-> None, roc_63d |-> None, roc_126d |-> None, roc_189d |-> None,
     roc_252d |-> None]

\* lines 264-289
calculate_rs_value(close) ==
    IF close = None \/ Len(close) < RsMinBars THEN NoRsValue
    ELSE LET roc == [i \in 1..4 |-> Roc(FromEnd(close, 1), FromEnd(close, RocPeriods[i]))]
         IN [rs_value |-> WeightedRoc(roc), roc_63d |-> roc[1], roc_126d |-> roc[2],
             roc_189d |-> roc[3], roc_252d |-> roc[4]]

\* no call of calculate_rs_value under study
RsvIdle ==
    /\ rsv_close = <<>>
    /\ rsv_pc = "idle"
    /\ rsv_out = NoRsValue

\* no frame, or 0, 251, 252 or 253 bars that close at 0, 1 or 2 but for
\* the bars of `raised`, counted from the end, which close 1 higher
InitRsv ==
    /\ \/ rsv_close = None
       \/ \E n \in {0, RsMinBars - 1, RsMinBars, RsMinBars + 1} :
          \E c \in 0..2 :
          \E raised \in SUBSET {1, 2, 63, 126, 189, 252} :
             rsv_close = [k \in 1..n |-> IF (n - k + 1) \in raised THEN c + 1 ELSE c]
    /\ rsv_pc = "call"
    /\ rsv_out = NoRsValue

RsvCall ==
    /\ rsv_pc = "call"
    /\ rsv_out' = calculate_rs_value(rsv_close)
    /\ rsv_pc' = "return"
    /\ UNCHANGED rsv_close

----------------------------------------------------------------------------
(* calculate_smr_components, src/ibd_ratings_calculator.py:204-301.  A     *)
(* figure of a statement is a whole number, None, or Lacking for a key     *)
(* the row does not have.  The arithmetic is exact: a component is kept as *)
(* a fraction num / den, den > 0.                                           *)

\* line 223: the least number of quarterly statements
MinSmrQuarters == 8

\* stmt.get(key, 0)
GetOrZero(figure) == IF figure = Lacking THEN Num(0) ELSE figure

\* stmt.get(key)
GetOrNone(figure) == IF figure = Lacking THEN None ELSE figure

\* `if x`: a number other than 0
NonZero(x) == IsNum(x) /\ x.val # 0

\* (n / d) * 100
Percent(n, d) == [tag |-> "frac", num |-> 100 * n, den |-> d]

\* lines 236-244: the year-over-year growth of the revenue of quarter i
SalesGrowth(q, i) ==
    LET current_revenue == GetOrZero(q[i].revenue)
        yoy_revenue == IF Len(q) > i + 3 THEN GetOrZero(q[i + 4].revenue) ELSE Num(0)
    IN IF NonZero(yoy_revenue) /\ yoy_revenue.val > 0 /\ NonZero(current_revenue)
       THEN Percent(current_revenue.val - yoy_revenue.val, yoy_revenue.val)
       ELSE None

\* the sum of a sequence of fractions
RECURSIVE FracSum(_)
FracSum(l) ==
    IF l = <<>> THEN [tag |-> "frac", num |-> 0, den |-> 1]
    ELSE LET rest == FracSum(Tail(l))
         IN [tag |-> "frac", num |-> l[1].num * rest.den + rest.num * l[1].den,
             den |-> l[1].den * rest.den]

\* lines 247-250: np.mean of the growth rates there are
AvgSalesGrowth(q) ==
    LET sales_growth_rates == SelectSeq([i \in 1..3 |-> SalesGrowth(q, i)], LAMBDA g : g # None)
        total == FracSum(sales_growth_rates)
    IN IF sales_growth_rates # <<>>
       THEN [tag |-> "frac", num |-> total.num, den |-> total.den * Len(sales_growth_rates)]
       ELSE None

\* lines 256-267: the annual net margin times 1.25
PretaxMargin(latest_annual) ==
    LET revenue_annual == GetOrZero(latest_annual.revenue)
        net_income_annual == GetOrZero(latest_annual.net_income)
    IN IF NonZero(revenue_annual) /\ revenue_annual.val > 0 /\ NonZero(net_income_annual)
       THEN [tag |-> "frac", num |-> 100 * net_income_annual.val * 5,
             den |-> revenue_annual.val * 4]
       ELSE None

\* lines 270-278: the net margin of the latest quarter
AftertaxMargin(latest_quarterly) ==
    LET revenue_quarterly == GetOrZero(latest_quarterly.revenue)
        net_income_quarterly == GetOrZero(latest_quarterly.net_income)
    IN IF NonZero(revenue_quarterly) /\ revenue_quarterly.val > 0
          /\ NonZero(net_income_quarterly)
       THEN Percent(net_income_quarterly.val, revenue_quarterly.val)
       ELSE None

\* a variant of RoeEquity without the fallback to total_equity
RoeEquityNoFallback(sheet) ==
    GetOrNone(sheet.total_stockholders_equity)

\* lines 285-288: total_stockholders_equity, total_equity when it is None
RoeEquity(sheet) ==
    IF GetOrNone(sheet.total_stockholders_equity) = None
    THEN GetOrNone(sheet.total_equity)
    ELSE GetOrNone(sheet.total_stockholders_equity)

\* lines 282-297: the annual return on equity
RoeAnnual(latest_annual, sheets) ==
    LET net_income_annual == GetOrZero(latest_annual.net_income)
    IN IF sheets # <<>>
       THEN LET stockholders_equity == RoeEquity(sheets[1])
            IN IF NonZero(stockholders_equity) /\ stockholders_equity.val > 0
                  /\ NonZero(net_income_annual)
               THEN Percent(net_income_annual.val, stockholders_equity.val)
               ELSE None
       ELSE None

\* lines 220-302
calculate_smr_components(q, a, sheets) ==
    IF Len(q) < MinSmrQuarters THEN None
    ELSE IF Len(a) < 1 THEN None
    ELSE [sales_growth_q1 |-> SalesGrowth(q, 1),
          sales_growth_q2 |-> SalesGrowth(q, 2),
          sales_growth_q3 |-> SalesGrowth(q, 3),
          avg_sales_growth_3q |-> AvgSalesGrowth(q),
          pretax_margin_annual |-> PretaxMargin(a[1]),
          aftertax_margin_quarterly |-> AftertaxMargin(q[1]),
          roe_annual |-> RoeAnnual(a[1], sheets)]

\* no call of calculate_smr_components under study
SmcIdle ==
    /\ income_quarterly = <<>>
    /\ income_annual = <<>>
    /\ balance_sheet = <<>>
    /\ smc_pc = "idle"
    /\ smc_result = None

\* 7 or 8 quarters, no or one annual statement, no or one balance sheet
InitSmc ==
    /\ \E n \in {MinSmrQuarters - 1, MinSmrQuarters} :
       \E r1 \in {Lacking, None, Num(0), Num(12)} :
       \E n1 \in {None, Num(3)} :
       \E r5 \in {Num(0), Num(10)} :
          income_quarterly =
              [i \in 1..n |-> IF i = 1 THEN [revenue |-> r1, net_income |-> n1]
                               ELSE IF i = 5 THEN [revenue |-> r5, net_income |-> Num(1)]
                               ELSE [revenue |-> Num(10), net_income |-> Num(1)]]
    /\ \/ income_annual = <<>>
       \/ \E r \in {Num(0), Num(10)} :
          \E n \in {Lacking, None, Num(0), Num(-2), Num(3)} :
             income_annual = <<[revenue |-> r, net_income |-> n]>>
    /\ \/ balance_sheet = <<>>
       \/ \E se \in {Lacking, None, Num(0), Num(-4), Num(5)} :
          \E te \in {Lacking, None, Num(0), Num(4)} :
             balance_sheet = <<[total_stockholders_equity |-> se, total_equity |-> te]>>
    /\ smc_pc = "call"
    /\ smc_result = None

SmcCall ==
    /\ smc_pc = "call"
    /\ smc_result' = calculate_smr_components(income_quarterly, income_annual, balance_sheet)
    /\ smc_pc' = "return"
    /\ UNCHANGED <<income_quarterly, income_annual, balance_sheet>>

----------------------------------------------------------------------------
(* The weighted scores of calculate_eps_ratings (lines 153-196),           *)
(* calculate_smr_ratings (lines 366-409) and calculate_comp_rating (lines  *)
(* 780-839) of src/ibd_ratings_calculator.py, run a second time with every *)
(* weight literal multiplied by one constant.                               *)

\* the greatest constant the weights are multiplied by
MaxScale == 3

\* the weight table of a computation, every weight multiplied by k
ScaledWeights(kind, k) ==
    CASE kind = "eps" -> [c \in EpsComponents |-> k * EpsWeight(c)]
      [] kind = "smr" -> [c \in SmrComponents |-> k * SmrWeight(c)]
      [] kind = "comp" -> [c \in Components |-> k * Weight(c)]

\* the score of each kind under the weight table w
WeightedScore(kind, w, input) ==
    CASE kind = "eps" -> EpsRatingsWith(w, input)
      [] kind = "smr" -> SmrScoresWith(w, input)
      [] kind = "comp" -> Normalize(AccumulateWith(w, input, CodeOrder))

\* no scaled run under study
WsIdle ==
    /\ ws_kind = "none"
    /\ ws_input = <<>>
    /\ ws_scale = 1
    /\ ws_pc = "idle"
    /\ ws_plain = <<>>
    /\ ws_scaled = <<>>

\* one or two instruments with stored EPS or SMR components, or the six
\* arguments of calculate_comp_rating; a constant from 2 on
InitWs ==
    /\ \/ /\ ws_kind = "eps"
          /\ \E n \in 1..2 :
                ws_input \in
                    [1..n -> [eps_growth_last_qtr : {None, Num(100), Num(250)},
                              eps_growth_prev_qtr : {None, Num(400)},
                              annual_growth_rate : {None, Num(1500)},
                              stability_score : {None, Num(8000)}]]
       \/ /\ ws_kind = "smr"
          /\ \E n \in 1..2 :
             \E pattern \in [1..n -> SmrPatterns] :
             \E turned \in BOOLEAN :
                ws_input =
                    [t \in 1..n |->
                        [c \in SmrComponents |->
                            IF c \notin pattern[t] THEN None
                            ELSE IF c = "roe_annual" /\ turned THEN Num(100 * ((t % n) + 1))
                            ELSE Num(100 * t)]]
       \/ /\ ws_kind = "comp"
          /\ ws_input \in CompArgs
    /\ ws_scale \in 2..MaxScale
    /\ ws_pc = "call"
    /\ ws_plain = <<>>
    /\ ws_scaled = <<>>

WsCall ==
    /\ ws_pc = "call"
    /\ ws_plain' = WeightedScore(ws_kind, ScaledWeights(ws_kind, 1), ws_input)
    /\ ws_scaled' = WeightedScore(ws_kind, ScaledWeights(ws_kind, ws_scale), ws_input)
    /\ ws_pc' = "return"
    /\ UNCHANGED <<ws_kind, ws_input, ws_scale>>

----------------------------------------------------------------------------
(* The pipeline of src/scripts/daily_workflow.py:113-127:                  *)
(* run_full_collection (src/ibd_data_collector.py:515-562) and then        *)
(* calculate_all_ratings (src/ibd_ratings_calculator.py:846-900), with the *)
(* batches of collect_all_data as threads and the loops over the tickers   *)
(* step by step.                                                            *)

\* the number of instruments of the ticker list
PipeTickers == 3

\* the metric kinds
MetricKinds == {"rs", "eps", "smr"}

\* a variant of PipelineSteps that ranks the SMR components before they
\* are derived
PipelineStepsRankFirst ==
    <<"collect_all_data", "calculate_and_store_rs_values",
      "calculate_and_store_eps_components", "calculate_rs_ratings",
      "calculate_eps_ratings", "calculate_smr_ratings", "calculate_smr_components">>

\* ibd_data_collector.py:546-555 and ibd_ratings_calculator.py:862-900,
\* the steps that collect, derive or rank
PipelineSteps ==
    <<"collect_all_data", "calculate_and_store_rs_values",
      "calculate_and_store_eps_components", "calculate_rs_ratings",
      "calculate_eps_ratings", "calculate_smr_components", "calculate_smr_ratings">>

\* the step that runs
PlStep == IF pl_step <= Len(PipelineSteps) THEN PipelineSteps[pl_step] ELSE "done"

\* the kind a step derives
DerivedKind(step) ==
    CASE step = "calculate_and_store_rs_values" -> "rs"
      [] step = "calculate_and_store_eps_components" -> "eps"
      [] step = "calculate_smr_components" -> "smr"
      [] OTHER -> "none"

\* the kind a step ranks
RankedKind(step) ==
    CASE step = "calculate_rs_ratings" -> "rs"
      [] step = "calculate_eps_ratings" -> "eps"
      [] step = "calculate_smr_ratings" -> "smr"
      [] OTHER -> "none"

\* ibd_data_collector.py:193: the batches of the ticker list
PipeBatches ==
    [b \in 1..NumBatches(PipeTickers) |->
        [i \in 1..Min(BatchSize, PipeTickers - (b - 1) * BatchSize) |->
            (b - 1) * BatchSize + i]]

\* the tickers of a batch
PipeBatchTickers(b) == {PipeBatches[b][i] : i \in 1..Len(PipeBatches[b])}

\* the tickers as a list in ascending order
RECURSIVE SetToSeq(_)
SetToSeq(S) ==
    IF S = {} THEN <<>>
    ELSE LET m == CHOOSE x \in S : \A y \in S : x <= y
         IN <<m>> \o SetToSeq(S \ {m})

\* no pipeline under study
PlIdle ==
    /\ pl_step = 0
    /\ pl_batch = <<>>
    /\ pl_succeeded = <<>>
    /\ pl_collected = {}
    /\ pl_idx = 0
    /\ pl_tried = [k \in MetricKinds |-> {}]
    /\ pl_stored = [k \in MetricKinds |-> {}]
    /\ pl_ranked = [k \in MetricKinds |-> None]

\* ibd_data_collector.py:201: every batch is submitted
InitPl ==
    /\ pl_step = 1
    /\ pl_batch = [b \in 1..Len(PipeBatches) |-> "submitted"]
    /\ pl_succeeded = [b \in 1..Len(PipeBatches) |-> {}]
    /\ pl_collected = {}
    /\ pl_idx = 0
    /\ pl_tried = [k \in MetricKinds |-> {}]
    /\ pl_stored = [k \in MetricKinds |-> {}]
    /\ pl_ranked = [k \in MetricKinds |-> None]

\* a worker of the pool takes batch b
PlBatchStart(b) ==
    /\ PlStep = "collect_all_data"
    /\ pl_batch[b] = "submitted"
    /\ Cardinality({c \in DOMAIN pl_batch : pl_batch[c] = "running"}) < MaxWorkers
    /\ pl_batch' = [pl_batch EXCEPT ![b] = "running"]
    /\ UNCHANGED <<pl_step, pl_succeeded, pl_collected, pl_idx, pl_tried, pl_stored, pl_ranked>>

\* ibd_data_collector.py:156-176: collect_batch returns the tickers that
\* succeeded, or raises
PlBatchEnd(b) ==
    /\ PlStep = "collect_all_data"
    /\ pl_batch[b] = "running"
    /\ \/ \E ok \in SUBSET PipeBatchTickers(b) :
             /\ pl_batch' = [pl_batch EXCEPT ![b] = "returned"]
             /\ pl_succeeded' = [pl_succeeded EXCEPT ![b] = ok]
       \/ /\ pl_batch' = [pl_batch EXCEPT ![b] = "raised"]
          /\ UNCHANGED pl_succeeded
    /\ UNCHANGED <<pl_step, pl_collected, pl_idx, pl_tried, pl_stored, pl_ranked>>

\* ibd_data_collector.py:204-228: as_completed has yielded every future,
\* the pool is shut down, the collected tickers are returned
PlCollectReturn ==
    /\ PlStep = "collect_all_data"
    /\ \A b \in DOMAIN pl_batch : pl_batch[b] \in {"returned", "raised"}
    /\ pl_collected' = UNION {pl_succeeded[b] : b \in DOMAIN pl_batch}
    /\ pl_step' = pl_step + 1
    /\ pl_idx' = 0
    /\ UNCHANGED <<pl_batch, pl_succeeded, pl_tried, pl_stored, pl_ranked>>

\* one round of the loop of a deriving step (ibd_data_collector.py:241-262,
\* 306-329, ibd_ratings_calculator.py:873-893): the raw metric of the next
\* ticker is derived and, where there is one, stored
PlDerive ==
    /\ DerivedKind(PlStep) # "none"
    /\ pl_idx < Cardinality(pl_collected)
    /\ LET k == DerivedKind(PlStep)
           ticker == SetToSeq(pl_collected)[pl_idx + 1]
       IN /\ pl_tried' = [pl_tried EXCEPT ![k] = @ \cup {ticker}]
          /\ \/ pl_stored' = [pl_stored EXCEPT ![k] = @ \cup {ticker}]
             \/ UNCHANGED pl_stored
    /\ pl_idx' = pl_idx + 1
    /\ UNCHANGED <<pl_step, pl_batch, pl_succeeded, pl_collected, pl_ranked>>

\* the loop of a deriving step is over
PlDeriveReturn ==
    /\ DerivedKind(PlStep) # "none"
    /\ pl_idx = Cardinality(pl_collected)
    /\ pl_step' = pl_step + 1
    /\ pl_idx' = 0
    /\ UNCHANGED <<pl_batch, pl_succeeded, pl_collected, pl_tried, pl_stored, pl_ranked>>

\* a ranking step (ibd_ratings_calculator.py:863, 866, 896): the stored raw
\* metrics of the kind are ranked
PlRank ==
    /\ RankedKind(PlStep) # "none"
    /\ LET k == RankedKind(PlStep)
       IN pl_ranked' = [pl_ranked EXCEPT ![k] =
              [over |-> pl_stored[k],
               unfinished |-> {b \in DOMAIN pl_batch : pl_batch[b] \in {"submitted", "running"}},
               underived |-> pl_collected \ pl_tried[k]]]
    /\ pl_step' = pl_step + 1
    /\ pl_idx' = 0
    /\ UNCHANGED <<pl_batch, pl_succeeded, pl_collected, pl_tried, pl_stored>>

----------------------------------------------------------------------------
(* fetch_with_rate_limit (src/ibd_data_collector.py:38-53) under the five  *)
(* requests of one collect_ticker_data call (lines 113-147).  The upstream *)
(* API either fails in some way or answers with a payload of some length;  *)
(* the store calls return.                                                  *)

\* the endpoints in the order of lines 115, 124, 133, 138 and 143
Endpoints == <<"prices", "income_q", "income_a", "balance_sheet", "profile">>

\* a request that fails: requests.get or raise_for_status or json() raises
Failed(how) == [tag |-> "failed", how |-> how]

\* the ways a request fails
Failures == {Failed("timeout"), Failed("http_error"), Failed("invalid_json")}

\* fetch_with_rate_limit has not been called for the endpoint
Unasked == [tag |-> "unasked"]

\* a variant of fetch_with_rate_limit that asks a second time after a
\* failure
FetchWithRetry(response) ==
    IF response \in Failures
    THEN [data |-> None, raised |-> FALSE, requests |-> 2]
    ELSE [data |-> response, raised |-> FALSE, requests |-> 1]

\* lines 38-53: one requests.get inside try; `except Exception` returns None
fetch_with_rate_limit(response) ==
    IF response \in Failures
    THEN [data |-> None, raised |-> FALSE, requests |-> 1]
    ELSE [data |-> response, raised |-> FALSE, requests |-> 1]

\* lines 57-98: the get_ methods hand on a payload that is not empty
Payload(data) == IF Truthy(data) THEN data ELSE None

\* no requests under study
FxIdle ==
    /\ fx_upstream = <<>>
    /\ fx_pc = 0
    /\ fx_requests = <<>>
    /\ fx_data = <<>>
    /\ fx_escaped = FALSE
    /\ fx_ret = "none"

\* before a call of collect_ticker_data; each endpoint fails or answers
InitFx ==
    /\ \E p \in Failures \cup {Num(MinBars - 1), Num(MinBars)} :
       \E q \in {Failed("timeout"), Num(0), Num(MinQuarters - 1), Num(MinQuarters)} :
       \E a \in {Failed("http_error"), Num(1)} :
       \E b \in {Failed("invalid_json"), Num(1)} :
       \E c \in {Failed("timeout"), Num(0), Num(1)} :
          fx_upstream = [e \in {"prices", "income_q", "income_a", "balance_sheet", "profile"} |->
                            CASE e = "prices" -> p
                              [] e = "income_q" -> q
                              [] e = "income_a" -> a
                              [] e = "balance_sheet" -> b
                              [] e = "profile" -> c]
    /\ fx_pc = 1
    /\ fx_requests = [e \in {"prices", "income_q", "income_a", "balance_sheet", "profile"} |-> 0]
    /\ fx_data = [e \in {"prices", "income_q", "income_a", "balance_sheet", "profile"} |-> Unasked]
    /\ fx_escaped = FALSE
    /\ fx_ret = "none"

\* lines 113-147: the next request of collect_ticker_data, the store write
\* that follows it, and the return where there is one
FxRequest ==
    /\ fx_pc \in 1..Len(Endpoints)
    /\ LET e == Endpoints[fx_pc]
           f == fetch_with_rate_limit(fx_upstream[e])
           data == Payload(f.data)
       IN /\ fx_requests' = [fx_requests EXCEPT ![e] = @ + f.requests]
          /\ fx_data' = [fx_data EXCEPT ![e] = f.data]
          /\ fx_escaped' = (fx_escaped \/ f.raised)
          /\ IF f.raised
                \/ (e = "prices" /\ ~EnoughBars(data))
                \/ (e = "income_q" /\ ~EnoughQuarters(data))
             THEN fx_ret' = "False" /\ fx_pc' = Len(Endpoints) + 1
             ELSE IF e = "profile"
             THEN fx_ret' = "True" /\ fx_pc' = Len(Endpoints) + 1
             ELSE fx_ret' = fx_ret /\ fx_pc' = fx_pc + 1
    /\ UNCHANGED fx_upstream

----------------------------------------------------------------------------
(* calculate_relative_strength, calculate_rs_sts_percentile and            *)
(* get_rs_sts_percentile, src/ibd_screeners.py:126-228.  A price row is a  *)
(* date and a close; the benchmark closes at 0, 1 or 2, so that twice the  *)
(* ratio target close / benchmark close is a whole number, and a series of *)
(* RS values is kept as the series of these doubles.                       *)

\* days of lines 126 and 221
RsDays == 25

\* the longest series handed to calculate_rs_sts_percentile by itself
MaxSeries == 4

\* a DataFrame of price rows
Frame(rows) == [tag |-> "frame", rows |-> rows]

\* an array of RS values
Array(values) == [tag |-> "array", values |-> values]

\* lines 143-148: the rows of the two frames on their common dates, in the
\* order of the benchmark
MergeOnDate(benchmark_prices, target_prices) ==
    LET common == SelectSeq(benchmark_prices,
                      LAMBDA b : \E i \in 1..Len(target_prices) : target_prices[i].date = b.date)
    IN [k \in 1..Len(common) |->
          [date |-> common[k].date,
           benchmark_close |-> common[k].close,
           target_close |-> (CHOOSE r \in {target_prices[i] : i \in 1..Len(target_prices)} :
                                r.date = common[k].date).close]]

\* merged.tail(days)
TailRows(merged, days) == SubSeq(merged, Len(merged) - days + 1, Len(merged))

\* lines 126-166; the ratios doubled
calculate_relative_strength(benchmark_prices, target_prices, days) ==
    IF benchmark_prices = None \/ target_prices = None THEN None
    ELSE LET all == MergeOnDate(benchmark_prices.rows, target_prices.rows)
             merged == IF Len(all) > days THEN TailRows(all, days) ELSE all
         IN IF Len(all) = 0 THEN None
            ELSE IF Len(merged) < days THEN None
            ELSE IF \E k \in 1..Len(merged) : merged[k].benchmark_close = 0 THEN None
            ELSE Array([k \in 1..Len(merged) |->
                           (2 * merged[k].target_close) \div merged[k].benchmark_close])

\* a variant of calculate_rs_sts_percentile that counts the values below
\* the latest and the latest itself
RsStsBelowLatest(rs_values) ==
    IF rs_values = None \/ Len(rs_values.values) = 0 THEN 0
    ELSE LET v == rs_values.values
             latest_rs == v[Len(v)]
             below == Cardinality({i \in 1..Len(v) : v[i] < latest_rs}) + 1
         IN RoundDiv(below * 10000, Len(v))

\* lines 168-184: round(sum(rs_values <= latest_rs) / len * 100, 2), in
\* hundredths
calculate_rs_sts_percentile(rs_values) ==
    IF rs_values = None \/ Len(rs_values.values) = 0 THEN 0
    ELSE LET v == rs_values.values
             latest_rs == v[Len(v)]
             at_most == Cardinality({i \in 1..Len(v) : v[i] <= latest_rs})
         IN RoundDiv(at_most * 10000, Len(v))

\* lines 186-228
get_rs_sts_percentile(benchmark_prices, ticker_prices) ==
    IF benchmark_prices = None THEN None
    ELSE IF ticker_prices = None THEN None
    ELSE IF Len(benchmark_prices.rows) < RsDays \/ Len(ticker_prices.rows) < RsDays THEN None
    ELSE LET rs_values == calculate_relative_strength(benchmark_prices, ticker_prices, RsDays)
         IN IF rs_values = None THEN None
            ELSE Num(calculate_rs_sts_percentile(rs_values))

\* the rows of dates 1..n but for the date `gap`, closing as `close` says
PriceRows(n, gap, close) ==
    LET dates == SelectSeq([d \in 1..n |-> d], LAMBDA d : d # gap)
    IN Frame([k \in 1..Len(dates) |-> [date |-> dates[k], close |-> close[dates[k]]]])

\* no RS STS % under study
StsIdle ==
    /\ sts_benchmark = None
    /\ sts_target = None
    /\ sts_series = None
    /\ sts_pc = "idle"
    /\ sts_result = None

\* either the frames of a benchmark and of a ticker: around 25 rows each,
\* one date missing or none, one benchmark close of 0 or none; or a short
\* series of RS values
InitSts ==
    \/ /\ sts_pc = "get"
       /\ \/ sts_benchmark = None
          \/ \E nb \in {RsDays - 1, RsDays, RsDays + 1, RsDays + 2} :
             \E zero_at \in {0, 1, 2, RsDays + 1} :
                sts_benchmark =
                    PriceRows(nb, 0, [d \in 1..nb |-> IF d = zero_at THEN 0 ELSE 1 + (d % 2)])
       /\ \/ sts_target = None
          \/ \E nt \in {RsDays - 1, RsDays + 1, RsDays + 2} :
             \E gap \in {0, 2, RsDays + 2} :
             \E step \in 0..2 :
                sts_target = PriceRows(nt, gap, [d \in 1..nt |-> 1 + ((d * step) % 3)])
       /\ sts_series = None
       /\ sts_result = None
    \/ /\ sts_pc = "calculate"
       /\ sts_benchmark = None
       /\ sts_target = None
       /\ \/ sts_series = None
          \/ \E n \in 0..MaxSeries : \E v \in [1..n -> 1..3] : sts_series = Array(v)
       /\ sts_result = None

\* one call of get_rs_sts_percentile
StsGet ==
    /\ sts_pc = "get"
    /\ sts_result' = get_rs_sts_percentile(sts_benchmark, sts_target)
    /\ sts_pc' = "got"
    /\ UNCHANGED <<sts_benchmark, sts_target, sts_series>>

\* one call of calculate_rs_sts_percentile
StsCalculate ==
    /\ sts_pc = "calculate"
    /\ sts_result' = Num(calculate_rs_sts_percentile(sts_series))
    /\ sts_pc' = "calculated"
    /\ UNCHANGED <<sts_benchmark, sts_target, sts_series>>

----------------------------------------------------------------------------
(* Specifications *)

vars == <<compVars, pctVars, rankVars, rlVars, ctVars, colVars, rateVars, epsVars, igrVars, screenVars, runVars, ecVars, smrVars, adVars, rsvVars, smcVars, wsVars, plVars, fxVars, stsVars>>

\* what each part of the program leaves alone
notComp == <<pctVars, rankVars, rlVars, ctVars, colVars, rateVars, epsVars, igrVars, screenVars, runVars, ecVars, smrVars, adVars, rsvVars, smcVars, wsVars, plVars, fxVars, stsVars>>
notPct == <<compVars, rankVars, rlVars, ctVars, colVars, rateVars, epsVars, igrVars, screenVars, runVars, ecVars, smrVars, adVars, rsvVars, smcVars, wsVars, plVars, fxVars, stsVars>>
notRank == <<compVars, pctVars, rlVars, ctVars, colVars, rateVars, epsVars, igrVars, screenVars, runVars, ecVars, smrVars, adVars, rsvVars, smcVars, wsVars, plVars, fxVars, stsVars>>
notRL == <<compVars, pctVars, rankVars, ctVars, colVars, rateVars, epsVars, igrVars, screenVars, runVars, ecVars, smrVars, adVars, rsvVars, smcVars, wsVars, plVars, fxVars, stsVars>>
notCt == <<compVars, pctVars, rankVars, rlVars, colVars, rateVars, epsVars, igrVars, screenVars, runVars, ecVars, smrVars, adVars, rsvVars, smcVars, wsVars, plVars, fxVars, stsVars>>
notCol == <<compVars, pctVars, rankVars, rlVars, ctVars, rateVars, epsVars, igrVars, screenVars, runVars, ecVars, smrVars, adVars, rsvVars, smcVars, wsVars, plVars, fxVars, stsVars>>
notRate == <<compVars, pctVars, rankVars, rlVars, ctVars, colVars, epsVars, igrVars, screenVars, runVars, ecVars, smrVars, adVars, rsvVars, smcVars, wsVars, plVars, fxVars, stsVars>>
notEps == <<compVars, pctVars, rankVars, rlVars, ctVars, colVars, rateVars, igrVars, screenVars, runVars, ecVars, smrVars, adVars, rsvVars, smcVars, wsVars, plVars, fxVars, stsVars>>
notIgr == <<compVars, pctVars, rankVars, rlVars, ctVars, colVars, rateVars, epsVars, screenVars, runVars, ecVars, smrVars, adVars, rsvVars, smcVars, wsVars, plVars, fxVars, stsVars>>
notScreen == <<compVars, pctVars, rankVars, rlVars, ctVars, colVars, rateVars, epsVars, igrVars, runVars, ecVars, smrVars, adVars, rsvVars, smcVars, wsVars, plVars, fxVars, stsVars>>
notRun == <<compVars, pctVars, rankVars, rlVars, ctVars, colVars, rateVars, epsVars, igrVars, screenVars, ecVars, smrVars, adVars, rsvVars, smcVars, wsVars, plVars, fxVars, stsVars>>
notEc == <<compVars, pctVars, rankVars, rlVars, ctVars, colVars, rateVars, epsVars, igrVars, screenVars, runVars, smrVars, adVars, rsvVars, smcVars, wsVars, plVars, fxVars, stsVars>>
notSmr == <<compVars, pctVars, rankVars, rlVars, ctVars, colVars, rateVars, epsVars, igrVars, screenVars, runVars, ecVars, adVars, rsvVars, smcVars, wsVars, plVars, fxVars, stsVars>>
notAd == <<compVars, pctVars, rankVars, rlVars, ctVars, colVars, rateVars, epsVars, igrVars, screenVars, runVars, ecVars, smrVars, rsvVars, smcVars, wsVars, plVars, fxVars, stsVars>>
notRsv == <<compVars, pctVars, rankVars, rlVars, ctVars, colVars, rateVars, epsVars, igrVars, screenVars, runVars, ecVars, smrVars, adVars, smcVars, wsVars, plVars, fxVars, stsVars>>
notSmc == <<compVars, pctVars, rankVars, rlVars, ctVars, colVars, rateVars, epsVars, igrVars, screenVars, runVars, ecVars, smrVars, adVars, rsvVars, wsVars, plVars, fxVars, stsVars>>
notWs == <<compVars, pctVars, rankVars, rlVars, ctVars, colVars, rateVars, epsVars, igrVars, screenVars, runVars, ecVars, smrVars, adVars, rsvVars, smcVars, plVars, fxVars, stsVars>>
notPl == <<compVars, pctVars, rankVars, rlVars, ctVars, colVars, rateVars, epsVars, igrVars, screenVars, runVars, ecVars, smrVars, adVars, rsvVars, smcVars, wsVars, fxVars, stsVars>>
notFx == <<compVars, pctVars, rankVars, rlVars, ctVars, colVars, rateVars, epsVars, igrVars, screenVars, runVars, ecVars, smrVars, adVars, rsvVars, smcVars, wsVars, plVars, stsVars>>
notSts == <<compVars, pctVars, rankVars, rlVars, ctVars, colVars, rateVars, epsVars, igrVars, screenVars, runVars, ecVars, smrVars, adVars, rsvVars, smcVars, wsVars, plVars, fxVars>>

\* one call of calculate_comp_rating
InitCompOnly == InitComp /\ PctIdle /\ RankIdle /\ RLIdle /\ CtIdle /\ ColIdle /\ RateIdle /\ EpsIdle /\ IgrIdle /\ ScreenIdle /\ RunIdle /\ EcIdle /\ SmrIdle /\ AdIdle /\ RsvIdle /\ SmcIdle /\ WsIdle /\ PlIdle /\ FxIdle /\ StsIdle

NextComp == CompCall /\ UNCHANGED notComp

SpecComp == InitCompOnly /\ [][NextComp]_vars

\* one call of calculate_percentile_ranking
InitPctOnly == InitPct /\ CompIdle /\ RankIdle /\ RLIdle /\ CtIdle /\ ColIdle /\ RateIdle /\ EpsIdle /\ IgrIdle /\ ScreenIdle /\ RunIdle /\ EcIdle /\ SmrIdle /\ AdIdle /\ RsvIdle /\ SmcIdle /\ WsIdle /\ PlIdle /\ FxIdle /\ StsIdle

NextPct == PctCall /\ UNCHANGED notPct

SpecPct == InitPctOnly /\ [][NextPct]_vars

\* the percentile loop over a long sorted list
InitRankOnly == InitRank /\ CompIdle /\ PctIdle /\ RLIdle /\ CtIdle /\ ColIdle /\ RateIdle /\ EpsIdle /\ IgrIdle /\ ScreenIdle /\ RunIdle /\ EcIdle /\ SmrIdle /\ AdIdle /\ RsvIdle /\ SmcIdle /\ WsIdle /\ PlIdle /\ FxIdle /\ StsIdle

NextRank == RankLoop /\ UNCHANGED notRank

SpecRank == InitRankOnly /\ [][NextRank]_vars

\* the rate limiter called by one thread
InitRLOnly == InitRL /\ CompIdle /\ PctIdle /\ RankIdle /\ CtIdle /\ ColIdle /\ RateIdle /\ EpsIdle /\ IgrIdle /\ ScreenIdle /\ RunIdle /\ EcIdle /\ SmrIdle /\ AdIdle /\ RsvIdle /\ SmcIdle /\ WsIdle /\ PlIdle /\ FxIdle /\ StsIdle

NextRLOne ==
    \/ Tick /\ UNCHANGED notRL
    \/ RLNow(1) /\ UNCHANGED notRL
    \/ RLFilterRead(1) /\ UNCHANGED notRL
    \/ RLFilterStore(1) /\ UNCHANGED notRL
    \/ RLCheck(1) /\ UNCHANGED notRL
    \/ RLSleepTime(1) /\ UNCHANGED notRL
    \/ RLWake(1) /\ UNCHANGED notRL
    \/ RLReset(1) /\ UNCHANGED notRL
    \/ RLAppend(1) /\ UNCHANGED notRL

SpecRLOne == InitRLOnly /\ [][NextRLOne]_vars

\* the rate limiter shared by the threads of the pool
NextRLPool ==
    \/ Tick /\ UNCHANGED notRL
    \/ \E w \in Workers :
          rl_started < PoolCalls /\ RLNow(w) /\ UNCHANGED notRL
    \/ \E w \in Workers : RLFilterRead(w) /\ UNCHANGED notRL
    \/ \E w \in Workers : RLFilterStore(w) /\ UNCHANGED notRL
    \/ \E w \in Workers : RLCheck(w) /\ UNCHANGED notRL
    \/ \E w \in Workers : RLSleepTime(w) /\ UNCHANGED notRL
    \/ \E w \in Workers : RLWake(w) /\ UNCHANGED notRL
    \/ \E w \in Workers : RLReset(w) /\ UNCHANGED notRL
    \/ \E w \in Workers : RLAppend(w) /\ UNCHANGED notRL

SpecRLPool == InitRLOnly /\ [][NextRLPool]_vars

\* the shared rate limiter under MaxCalls calls of the threads of the pool
NextRLShared ==
    \/ Tick /\ UNCHANGED notRL
    \/ \E w \in Workers : RLNow(w) /\ UNCHANGED notRL
    \/ \E w \in Workers : RLFilterRead(w) /\ UNCHANGED notRL
    \/ \E w \in Workers : RLFilterStore(w) /\ UNCHANGED notRL
    \/ \E w \in Workers : RLCheck(w) /\ UNCHANGED notRL
    \/ \E w \in Workers : RLSleepTime(w) /\ UNCHANGED notRL
    \/ \E w \in Workers : RLWake(w) /\ UNCHANGED notRL
    \/ \E w \in Workers : RLReset(w) /\ UNCHANGED notRL
    \/ \E w \in Workers : RLAppend(w) /\ UNCHANGED notRL

SpecRLShared == InitRLOnly /\ [][NextRLShared]_vars

\* one call of collect_ticker_data
InitCtOnly == InitCt /\ CompIdle /\ PctIdle /\ RankIdle /\ RLIdle /\ ColIdle /\ RateIdle /\ EpsIdle /\ IgrIdle /\ ScreenIdle /\ RunIdle /\ EcIdle /\ SmrIdle /\ AdIdle /\ RsvIdle /\ SmcIdle /\ WsIdle /\ PlIdle /\ FxIdle /\ StsIdle

NextCt == CtCall /\ UNCHANGED notCt

SpecCt == InitCtOnly /\ [][NextCt]_vars

\* one call of collect_all_data
InitColOnly == InitCol /\ CompIdle /\ PctIdle /\ RankIdle /\ RLIdle /\ CtIdle /\ RateIdle /\ EpsIdle /\ IgrIdle /\ ScreenIdle /\ RunIdle /\ EcIdle /\ SmrIdle /\ AdIdle /\ RsvIdle /\ SmcIdle /\ WsIdle /\ PlIdle /\ FxIdle /\ StsIdle

NextCol ==
    \/ \E b \in DOMAIN batch_pc : BatchOpen(b) /\ UNCHANGED notCol
    \/ \E b \in DOMAIN batch_pc : BatchTicker(b) /\ UNCHANGED notCol
    \/ \E b \in DOMAIN batch_pc : BatchClose(b) /\ UNCHANGED notCol
    \/ \E b \in DOMAIN batch_pc : MainResult(b) /\ UNCHANGED notCol
    \/ MainReturn /\ UNCHANGED notCol

SpecCol == InitColOnly /\ [][NextCol]_vars

\* the rating loop of calculate_all_ratings
InitRateOnly == InitRate /\ CompIdle /\ PctIdle /\ RankIdle /\ RLIdle /\ CtIdle /\ ColIdle /\ EpsIdle /\ IgrIdle /\ ScreenIdle /\ RunIdle /\ EcIdle /\ SmrIdle /\ AdIdle /\ RsvIdle /\ SmcIdle /\ WsIdle /\ PlIdle /\ FxIdle /\ StsIdle

NextRate == RateTicker /\ UNCHANGED notRate

SpecRate == InitRateOnly /\ [][NextRate]_vars

\* the same under fair scheduling: the pool threads and the calling thread
\* keep running, and every request ends (timeout=30 at line 47)
SpecColFair == SpecCol /\ WF_vars(NextCol)

\* one call of calculate_eps_ratings
InitEpsOnly == InitEps /\ CompIdle /\ PctIdle /\ RankIdle /\ RLIdle /\ CtIdle /\ ColIdle /\ RateIdle /\ IgrIdle /\ ScreenIdle /\ RunIdle /\ EcIdle /\ SmrIdle /\ AdIdle /\ RsvIdle /\ SmcIdle /\ WsIdle /\ PlIdle /\ FxIdle /\ StsIdle

NextEps == EpsCall /\ UNCHANGED notEps

SpecEps == InitEpsOnly /\ [][NextEps]_vars

\* one call of calculate_all_industry_group_rs
InitIgrOnly == InitIgr /\ CompIdle /\ PctIdle /\ RankIdle /\ RLIdle /\ CtIdle /\ ColIdle /\ RateIdle /\ EpsIdle /\ ScreenIdle /\ RunIdle /\ EcIdle /\ SmrIdle /\ AdIdle /\ RsvIdle /\ SmcIdle /\ WsIdle /\ PlIdle /\ FxIdle /\ StsIdle

NextIgr == IgrCall /\ UNCHANGED notIgr

SpecIgr == InitIgrOnly /\ [][NextIgr]_vars

\* the six screeners in any order on a snapshot of several tickers
InitScreenOnly == InitScreen /\ CompIdle /\ PctIdle /\ RankIdle /\ RLIdle /\ CtIdle /\ ColIdle /\ RateIdle /\ EpsIdle /\ IgrIdle /\ RunIdle /\ EcIdle /\ SmrIdle /\ AdIdle /\ RsvIdle /\ SmcIdle /\ WsIdle /\ PlIdle /\ FxIdle /\ StsIdle

NextScreen ==
    \/ Screen("momentum_97") /\ UNCHANGED notScreen
    \/ Screen("explosive_eps_growth") /\ UNCHANGED notScreen
    \/ Screen("up_on_volume") /\ UNCHANGED notScreen
    \/ Screen("top_2_percent_rs") /\ UNCHANGED notScreen
    \/ Screen("4_percent_bullish_yesterday") /\ UNCHANGED notScreen
    \/ Screen("healthy_chart_watchlist") /\ UNCHANGED notScreen

SpecScreen == InitScreenOnly /\ [][NextScreen]_vars

\* one screener on a store of one ticker with any inputs
InitScreenOneOnly == InitScreenOne /\ CompIdle /\ PctIdle /\ RankIdle /\ RLIdle /\ CtIdle /\ ColIdle /\ RateIdle /\ EpsIdle /\ IgrIdle /\ RunIdle /\ EcIdle /\ SmrIdle /\ AdIdle /\ RsvIdle /\ SmcIdle /\ WsIdle /\ PlIdle /\ FxIdle /\ StsIdle

NextScreenOne ==
    \/ screened = {} /\ Screen("momentum_97") /\ UNCHANGED notScreen
    \/ screened = {} /\ Screen("explosive_eps_growth") /\ UNCHANGED notScreen
    \/ screened = {} /\ Screen("up_on_volume") /\ UNCHANGED notScreen
    \/ screened = {} /\ Screen("top_2_percent_rs") /\ UNCHANGED notScreen
    \/ screened = {} /\ Screen("4_percent_bullish_yesterday") /\ UNCHANGED notScreen
    \/ screened = {} /\ Screen("healthy_chart_watchlist") /\ UNCHANGED notScreen

SpecScreenOne == InitScreenOneOnly /\ [][NextScreenOne]_vars

\* full runs, one after the other
InitRunOnly == InitRun /\ CompIdle /\ PctIdle /\ RankIdle /\ RLIdle /\ CtIdle /\ ColIdle /\ RateIdle /\ EpsIdle /\ IgrIdle /\ ScreenIdle /\ EcIdle /\ SmrIdle /\ AdIdle /\ RsvIdle /\ SmcIdle /\ WsIdle /\ PlIdle /\ FxIdle /\ StsIdle

NextRun ==
    \/ collect_all_data /\ UNCHANGED notRun
    \/ calculate_and_store_rs_values /\ UNCHANGED notRun
    \/ calculate_and_store_eps_components /\ UNCHANGED notRun
    \/ calculate_all_ratings /\ UNCHANGED notRun
    \/ NextFullRun /\ UNCHANGED notRun

SpecRun == InitRunOnly /\ [][NextRun]_vars

\* one call of calculate_eps_components
InitEcOnly == InitEc /\ CompIdle /\ PctIdle /\ RankIdle /\ RLIdle /\ CtIdle /\ ColIdle /\ RateIdle /\ EpsIdle /\ IgrIdle /\ ScreenIdle /\ RunIdle /\ SmrIdle /\ AdIdle /\ RsvIdle /\ SmcIdle /\ WsIdle /\ PlIdle /\ FxIdle /\ StsIdle

NextEc == EcCall /\ UNCHANGED notEc

SpecEc == InitEcOnly /\ [][NextEc]_vars

\* one call of calculate_smr_ratings
InitSmrOnly == InitSmr /\ CompIdle /\ PctIdle /\ RankIdle /\ RLIdle /\ CtIdle /\ ColIdle /\ RateIdle /\ EpsIdle /\ IgrIdle /\ ScreenIdle /\ RunIdle /\ EcIdle /\ AdIdle /\ RsvIdle /\ SmcIdle /\ WsIdle /\ PlIdle /\ FxIdle /\ StsIdle

NextSmr == SmrCall /\ UNCHANGED notSmr

SpecSmr == InitSmrOnly /\ [][NextSmr]_vars

\* one call of calculate_ad_rating
InitAdOnly == InitAd /\ CompIdle /\ PctIdle /\ RankIdle /\ RLIdle /\ CtIdle /\ ColIdle /\ RateIdle /\ EpsIdle /\ IgrIdle /\ ScreenIdle /\ RunIdle /\ EcIdle /\ SmrIdle /\ RsvIdle /\ SmcIdle /\ WsIdle /\ PlIdle /\ FxIdle /\ StsIdle

NextAd == AdCall /\ UNCHANGED notAd

SpecAd == InitAdOnly /\ [][NextAd]_vars

\* one call of calculate_rs_value
InitRsvOnly == InitRsv /\ CompIdle /\ PctIdle /\ RankIdle /\ RLIdle /\ CtIdle /\ ColIdle /\ RateIdle /\ EpsIdle /\ IgrIdle /\ ScreenIdle /\ RunIdle /\ EcIdle /\ SmrIdle /\ AdIdle /\ SmcIdle /\ WsIdle /\ PlIdle /\ FxIdle /\ StsIdle

NextRsv == RsvCall /\ UNCHANGED notRsv

SpecRsv == InitRsvOnly /\ [][NextRsv]_vars

\* one call of calculate_smr_components
InitSmcOnly == InitSmc /\ CompIdle /\ PctIdle /\ RankIdle /\ RLIdle /\ CtIdle /\ ColIdle /\ RateIdle /\ EpsIdle /\ IgrIdle /\ ScreenIdle /\ RunIdle /\ EcIdle /\ SmrIdle /\ AdIdle /\ RsvIdle /\ WsIdle /\ PlIdle /\ FxIdle /\ StsIdle

NextSmc == SmcCall /\ UNCHANGED notSmc

SpecSmc == InitSmcOnly /\ [][NextSmc]_vars

\* a weighted score under the weights of the code and under scaled weights
InitWsOnly == InitWs /\ CompIdle /\ PctIdle /\ RankIdle /\ RLIdle /\ CtIdle /\ ColIdle /\ RateIdle /\ EpsIdle /\ IgrIdle /\ ScreenIdle /\ RunIdle /\ EcIdle /\ SmrIdle /\ AdIdle /\ RsvIdle /\ SmcIdle /\ PlIdle /\ FxIdle /\ StsIdle

NextWs == WsCall /\ UNCHANGED notWs

SpecWs == InitWsOnly /\ [][NextWs]_vars

\* one pipeline: collection, derivation, ranking
InitPlOnly == InitPl /\ CompIdle /\ PctIdle /\ RankIdle /\ RLIdle /\ CtIdle /\ ColIdle /\ RateIdle /\ EpsIdle /\ IgrIdle /\ ScreenIdle /\ RunIdle /\ EcIdle /\ SmrIdle /\ AdIdle /\ RsvIdle /\ SmcIdle /\ WsIdle /\ FxIdle /\ StsIdle

NextPl ==
    \/ \E b \in 1..Len(PipeBatches) : PlBatchStart(b) /\ UNCHANGED notPl
    \/ \E b \in 1..Len(PipeBatches) : PlBatchEnd(b) /\ UNCHANGED notPl
    \/ PlCollectReturn /\ UNCHANGED notPl
    \/ PlDerive /\ UNCHANGED notPl
    \/ PlDeriveReturn /\ UNCHANGED notPl
    \/ PlRank /\ UNCHANGED notPl

SpecPl == InitPlOnly /\ [][NextPl]_vars

\* the requests of one call of collect_ticker_data
InitFxOnly == InitFx /\ CompIdle /\ PctIdle /\ RankIdle /\ RLIdle /\ CtIdle /\ ColIdle /\ RateIdle /\ EpsIdle /\ IgrIdle /\ ScreenIdle /\ RunIdle /\ EcIdle /\ SmrIdle /\ AdIdle /\ RsvIdle /\ SmcIdle /\ WsIdle /\ PlIdle /\ StsIdle

NextFx == FxRequest /\ UNCHANGED notFx

SpecFx == InitFxOnly /\ [][NextFx]_vars

\* one call of get_rs_sts_percentile or of calculate_rs_sts_percentile
InitStsOnly == InitSts /\ CompIdle /\ PctIdle /\ RankIdle /\ RLIdle /\ CtIdle /\ ColIdle /\ RateIdle /\ EpsIdle /\ IgrIdle /\ ScreenIdle /\ RunIdle /\ EcIdle /\ SmrIdle /\ AdIdle /\ RsvIdle /\ SmcIdle /\ WsIdle /\ PlIdle /\ FxIdle

NextSts ==
    \/ StsGet /\ UNCHANGED notSts
    \/ StsCalculate /\ UNCHANGED notSts

SpecSts == InitStsOnly /\ [][NextSts]_vars

----------------------------------------------------------------------------
(* Claims about calculate_comp_rating *)

SomePresent(a) == \E c \in Components : Present(a, c)

\* the weighted average of the present components' 0-100 scores with the
\* weights renormalized to sum to 1, clamped to [0,100], in hundredths
WeightedAverage(a) ==
    LET acc == Accumulate(a, CodeOrder)
    IN  Num(RoundDiv(Min(1000000 * acc.weight_sum, Max(0, acc.score)),
                     acc.weight_sum * 100))

\* C1: calculate_comp_rating returns the weighted average of the present
\* components' scores, weights renormalized to sum to 1, then clamped
\* (RS Rating 50 alone gives 50).
C1_WeightedAverage ==
    (comp_pc = "return" /\ SomePresent(comp_args))
        => comp_rating = WeightedAverage(comp_args)

\* C2: the result is a number in [0,100] whenever a component is present,
\* None exactly when all six are absent, and the same whatever the order
\* in which the components were accumulated.
C2_RangeNoneOrder ==
    comp_pc = "return" =>
        /\ (comp_rating = None) <=> ~SomePresent(comp_args)
        /\ SomePresent(comp_args) =>
              (IsNum(comp_rating) /\ comp_rating.val >= 0
                                  /\ comp_rating.val <= 10000)
        /\ comp_rating = calculate_comp_rating(comp_args)

C2_Witness ==
    /\ comp_pc = "return"
    /\ Cardinality({c \in Components : Present(comp_args, c)}) = 2
    /\ IsNum(comp_rating)
    /\ comp_rating.val > 0
    /\ comp_rating.val < 10000

----------------------------------------------------------------------------
(* Claims about calculate_percentile_ranking *)

ValidTickers ==
    {values_dict[i].ticker :
        i \in {j \in 1..Len(values_dict) : IsNum(values_dict[j].value)}}

\* the place of instrument t in the insertion order of values_dict
InputPos(t) == CHOOSE i \in 1..Len(values_dict) : values_dict[i].ticker = t

\* t is ranked below u: smaller value, or equal value and earlier in input
RankedBelow(t, u) ==
    LET vt == values_dict[InputPos(t)].value.val
        vu == values_dict[InputPos(u)].value.val
    IN  vt < vu \/ (vt = vu /\ InputPos(t) < InputPos(u))

\* the 1-based rank of t among the valid instruments
RankOf(t) == 1 + Cardinality({u \in ValidTickers : RankedBelow(u, t)})

\* C6 as stated: the keys are the instruments with a number, and the
\* percentiles are the n distinct values 100*k/n, k = 1..n, one each, the
\* earlier of two equal values getting the lower one.
C6_ExactQuotients ==
    pct_pc = "return" =>
        /\ DOMAIN percentile_dict = ValidTickers
        /\ \A t \in ValidTickers :
              percentile_dict[t] * Cardinality(ValidTickers)
                  = 10000 * RankOf(t)

\* C6 amended: the percentile of the k-th of the n valid instruments is
\* 100*k/n rounded to two decimals; the n values are distinct (n being at
\* most 10000) and the earlier of two equal values gets the lower one.
C6_RoundedQuotients ==
    pct_pc = "return" =>
        /\ DOMAIN percentile_dict = ValidTickers
        /\ \A t \in ValidTickers :
              percentile_dict[t]
                  = RoundDiv(10000 * RankOf(t), Cardinality(ValidTickers))
        /\ \A t, u \in ValidTickers :
              RankedBelow(t, u) => percentile_dict[t] < percentile_dict[u]

C6_Witness ==
    /\ pct_pc = "return"
    /\ Len(values_dict) = 3
    /\ Cardinality(ValidTickers) = 2
    /\ \E t, u \in ValidTickers :
          /\ InputPos(t) < InputPos(u)
          /\ values_dict[InputPos(t)].value = values_dict[InputPos(u)].value
          /\ percentile_dict[t] = 5000
          /\ percentile_dict[u] = 10000

----------------------------------------------------------------------------
(* Claims about RateLimiter *)

\* the calls released in the window that ends with the i-th release
ReleasedInWindow(i) ==
    {j \in 1..Len(released) :
        /\ released[j] <= released[i]
        /\ released[i] - released[j] < WindowSeconds}

\* C3: with one calling thread, the calls released inside any 60-second
\* sliding interval never exceed max_calls_per_minute.
C3_BudgetOneThread ==
    \A i \in 1..Len(released) :
        Cardinality(ReleasedInWindow(i)) <= MaxCallsPerMinute

\* how many times t occurs in list l
Count(l, t) == Cardinality({i \in 1..Len(l) : l[i] = t})

\* C4: the prune of one worker is atomic with respect to the others: the
\* assignment of line 26 drops no timestamp of the call history that is
\* still inside that worker's window.
C4_PruneLosesNothing ==
    [][\A w \in Workers :
          RLFilterStore(w) =>
              \A i \in 1..Len(calls) :
                  rl_now[w] - calls[i] < WindowSeconds
                      => Count(calls', calls[i]) >= Count(calls, calls[i])]_vars

----------------------------------------------------------------------------
(* Claims about the collector *)

\* C7: when no store write raises, collect_ticker_data returns True exactly
\* when at least 252 daily bars and at least 5 quarterly statements came
\* back (so a missing annual statement, balance sheet or profile never
\* fails it); after too few bars nothing more is requested, and after too
\* few quarterly statements no annual statement, balance sheet or profile
\* is requested.
C7_AcceptIffThresholds ==
    (ct_pc = "return" /\ ~ct_out.raised) =>
        LET bars == IF IsNum(ct_env.prices) THEN ct_env.prices.val ELSE 0
            quarters == IF IsNum(ct_env.income_q) THEN ct_env.income_q.val ELSE 0
        IN /\ ct_out.ret <=> (bars >= 252 /\ quarters >= 5)
           /\ bars < 252 => ct_out.trace = <<"get_prices">>
           /\ (bars >= 252 /\ quarters < 5) =>
                 ct_out.trace = <<"get_prices", "put_prices", "get_income_q">>

\* accepted on exactly 252 bars and 5 quarters with the annual statements,
\* the balance sheet and the profile all missing
C7_Witness ==
    /\ ct_pc = "return"
    /\ ct_out.ret
    /\ ct_env.prices = Num(252)
    /\ ct_env.income_q = Num(5)
    /\ ct_env.income_a = None
    /\ ct_env.balance_sheet = None
    /\ ct_env.profile = None
    /\ ct_out.trace = <<"get_prices", "put_prices", "get_income_q", "put_income_q",
                        "get_income_a", "get_balance_sheet", "get_profile">>

\* the tickers of the batches whose task did not raise
TickersOfOpenedBatches ==
    {t \in DOMAIN ticker_log :
        \E b \in DOMAIN batch_pc : InSeq(t, batches[b]) /\ batch_pc[b] # "raised"}

\* what a ticker's own responses deserve
OwnOutcome(t) ==
    /\ IsNum(ticker_log[t].prices) /\ ticker_log[t].prices.val >= 252
    /\ IsNum(ticker_log[t].income_q) /\ ticker_log[t].income_q.val >= 5
    /\ ~ticker_log[t].raised

\* C8: whichever instruments fail (no data, too little data, or an
\* exception while they are processed), collect_all_data returns, and by
\* then every instrument of every batch that got its connection has been
\* fetched once and is in the returned list exactly when its own responses
\* deserve it, whatever happened to the others.
C8_SiblingIsolation ==
    /\ <>(col_pc = "returned")
    /\ [](col_pc = "returned" =>
            \A t \in TickersOfOpenedBatches :
                /\ ticker_log[t].calls = 1
                /\ ticker_log[t].trace # <<>>
                /\ ticker_log[t].ret <=> OwnOutcome(t)
                /\ InSeq(t, all_collected_tickers) <=> OwnOutcome(t))

\* the first ticker raises, the third has too little data, and their batch
\* mates, the second and the fourth, are collected
C8_Witness ==
    /\ col_pc = "returned"
    /\ Len(tickers_list) >= 4
    /\ ticker_log[1].raised
    /\ ~ticker_log[3].ret /\ ~ticker_log[3].raised /\ ticker_log[3].calls = 1
    /\ InSeq(2, all_collected_tickers)
    /\ InSeq(4, all_collected_tickers)

\* C9: when collect_all_data returns, total_success + total_failed is the
\* number of input instruments, also when a batch task raised, and the
\* returned list holds exactly the instruments whose collection succeeded.
C9_TalliesCoverInput ==
    col_pc = "returned" =>
        /\ total_success + total_failed = Len(tickers_list)
        /\ {all_collected_tickers[i] : i \in 1..Len(all_collected_tickers)}
             = {t \in DOMAIN ticker_log : ticker_log[t].ret}

----------------------------------------------------------------------------
(* Claims about calculate_all_ratings *)

\* is one of the six components of the composite present for ticker t?
AnyComponent(t) == \E c \in Components : Present(RatingArgs(t), c)

\* C10: when the loop of calculate_all_ratings is over, a ticker whose
\* iteration did not raise has a stored row exactly when at least one of
\* its six components is present: RS Rating, EPS Rating, A/D letter, SMR
\* letter, Industry Group RS or distance from the 52-week high.
C10_RatedIfAnyComponent ==
    (rate_idx >= 0 /\ rate_idx = Len(all_tickers)) =>
        \A t \in DOMAIN all_tickers :
            t \notin rate_raised =>
                (calculated_ratings[t] # None <=> AnyComponent(t))

----------------------------------------------------------------------------
(* Claims about calculate_eps_ratings *)

\* the instruments whose raw value of component c is a number
EpsRanked(c) ==
    {t \in DOMAIN eps_components_dict : IsNum(eps_components_dict[t][c])}

\* the components of instrument t that have a raw value
EpsHas(t) == {c \in EpsComponents : t \in EpsRanked(c)}

\* the percentile of instrument t for component c: its place among the
\* ranked instruments, earlier tickers first among equals, out of their
\* number, as a percentage rounded to two decimals (in hundredths)
EpsPercentile(c, t) ==
    LET v(u) == eps_components_dict[u][c].val
        place == Cardinality({u \in EpsRanked(c) :
                     v(u) < v(t) \/ (v(u) = v(t) /\ u <= t)})
    IN RoundDiv(10000 * place, Cardinality(EpsRanked(c)))

\* the literal weights of the claim, in hundredths
ClaimedEpsWeight(c) ==
    CASE c = "eps_growth_last_qtr" -> 50
      [] c = "eps_growth_prev_qtr" -> 20
      [] c = "annual_growth_rate" -> 20
      [] c = "stability_score" -> 10

EpsWeightedSum(t) ==
    SumOver(EpsHas(t),
            [c \in EpsHas(t) |-> ClaimedEpsWeight(c) * EpsPercentile(c, t)])

EpsWeightSum(t) == SumOver(EpsHas(t), [c \in EpsHas(t) |-> ClaimedEpsWeight(c)])

\* C11 (as stated): the rating of every instrument is exactly
\* sum(w_c * p_c) / sum(w_c) over its components with a raw value, lies in
\* (0,100], and instruments without such a component are absent.
C11_ExactWeightedMean ==
    eps_pc = "return" =>
        /\ DOMAIN eps_result = {t \in DOMAIN eps_components_dict : EpsHas(t) # {}}
        /\ \A t \in DOMAIN eps_result :
              /\ eps_result[t] * EpsWeightSum(t) = EpsWeightedSum(t)
              /\ 0 < eps_result[t] /\ eps_result[t] <= 10000

\* C11 (amended): the rating of every instrument is sum(w_c * p_c) /
\* sum(w_c) over its components with a raw value, rounded to two decimals;
\* it lies in (0,100], and instruments without such a component are absent.
C11_RoundedWeightedMean ==
    eps_pc = "return" =>
        /\ DOMAIN eps_result = {t \in DOMAIN eps_components_dict : EpsHas(t) # {}}
        /\ \A t \in DOMAIN eps_result :
              /\ eps_result[t] = RoundDiv(EpsWeightedSum(t), EpsWeightSum(t))
              /\ 0 < eps_result[t] /\ eps_result[t] <= 10000

\* two instruments, the first with the lower last-quarter growth and the
\* only prior-quarter growth: (0.5 * 50 + 0.2 * 100) / 0.7 = 64.29; the
\* second has last-quarter growth alone
C11_Witness ==
    /\ eps_pc = "return"
    /\ Len(eps_components_dict) = 2
    /\ EpsHas(1) = {"eps_growth_last_qtr", "eps_growth_prev_qtr"}
    /\ EpsHas(2) = {"eps_growth_last_qtr"}
    /\ eps_result[1] = 6429
    /\ eps_result[2] = 10000

----------------------------------------------------------------------------
(* Claims about calculate_all_industry_group_rs *)

\* the industry of ticker t: its sector when it has no industry
ClaimedIndustry(t) ==
    IF company_profile[t] = None THEN ""
    ELSE IF company_profile[t].industry = "" THEN company_profile[t].sector
    ELSE company_profile[t].industry

\* the members of industry k that have an RS value
Qualifying(k) ==
    {t \in DOMAIN company_profile : ClaimedIndustry(t) = k /\ IsNum(all_rs_values[t])}

\* the industries with at least 3 qualifying members
Included ==
    {k \in {ClaimedIndustry(t) : t \in DOMAIN company_profile} \ {""} :
        Cardinality(Qualifying(k)) >= 3}

RsSum(k) == SumOver(Qualifying(k), [t \in Qualifying(k) |-> all_rs_values[t].val])

\* the first qualifying member of industry k
FirstMember(k) == CHOOSE t \in Qualifying(k) : \A u \in Qualifying(k) : t <= u

\* the percentile of included industry k among the included industries by
\* mean RS value, an industry met earlier first among equals
IndustryPercentile(k) ==
    LET below(j) ==
            \/ RsSum(j) * Cardinality(Qualifying(k)) < RsSum(k) * Cardinality(Qualifying(j))
            \/ /\ RsSum(j) * Cardinality(Qualifying(k)) = RsSum(k) * Cardinality(Qualifying(j))
               /\ FirstMember(j) <= FirstMember(k)
    IN RoundDiv(10000 * Cardinality({j \in Included : below(j)}), Cardinality(Included))

\* C12: the tickers that get a value are exactly the members with an RS
\* value of the industries (sector when the industry is missing) that
\* have at least 3 such members; each gets the percentile of its industry,
\* so the members of one industry get the same value.
C12_ThreeMembersIncluded ==
    igr_pc = "return" =>
        /\ DOMAIN industry_group_rs_dict = UNION {Qualifying(k) : k \in Included}
        /\ \A t \in DOMAIN industry_group_rs_dict :
              industry_group_rs_dict[t] = IndustryPercentile(ClaimedIndustry(t))
        /\ \A t, u \in DOMAIN industry_group_rs_dict :
              ClaimedIndustry(t) = ClaimedIndustry(u) =>
                  industry_group_rs_dict[t] = industry_group_rs_dict[u]

\* industry A has exactly 3 members with an RS value and is ranked; the
\* tickers without industry of sector S are 3, of which exactly 2 have an
\* RS value, and get nothing
C12_Witness ==
    /\ igr_pc = "return"
    /\ Cardinality(Qualifying("A")) = 3
    /\ Cardinality(Qualifying("S")) = 2
    /\ Cardinality({t \in DOMAIN company_profile : ClaimedIndustry(t) = "S"}) = 3
    /\ DOMAIN industry_group_rs_dict = Qualifying("A")
    /\ \A t \in Qualifying("A") : industry_group_rs_dict[t] = 10000

----------------------------------------------------------------------------
(* Claims about the screeners *)

\* C13: a screener leaves the store as it was, and so each screener
\* returns what it returns on the snapshot taken before the first one,
\* whichever screeners ran before it.
C13_ScreenersReadOnly ==
    /\ [][store' = store]_vars
    /\ [](\A name \in screened :
              screener_results[name] = RunScreener(name, snapshot))

\* all six have run; top_2_percent_rs and momentum_97 returned different
\* non-empty lists
C13_Witness ==
    /\ screened = ScreenerNames
    /\ store = snapshot
    /\ screener_results["top_2_percent_rs"] # <<>>
    /\ screener_results["momentum_97"] # <<>>
    /\ screener_results["top_2_percent_rs"] # screener_results["momentum_97"]

\* is an input that the rule set of screener `name` reads missing for a
\* ticker with inputs x?
InputMissing(name, x) ==
    LET no_rs == x.rating = None \/ x.rating.rs_rating = None
        no_cap == x.company_profile = None \/ x.company_profile.market_cap = None
        no_eps == x.eps_components = None \/ x.eps_components.eps_growth_last_qtr = None
    IN
    CASE name = "momentum_97" ->
            \/ x.price_metrics = None
            \/ x.price_metrics.pct_1m = None
            \/ x.price_metrics.pct_3m = None
            \/ x.price_metrics.pct_6m = None
      [] name = "explosive_eps_growth" ->
            \/ no_rs \/ x.rs_sts = None \/ no_eps
            \/ x.volume_metrics = None \/ x.moving_averages = None
      [] name = "up_on_volume" ->
            \/ no_rs \/ x.rating.ad_rating = "None" \/ x.rs_sts = None
            \/ x.price_metrics = None \/ x.volume_metrics = None
            \/ no_cap \/ no_eps
      [] name = "top_2_percent_rs" ->
            \/ no_rs \/ x.rs_sts = None \/ x.moving_averages = None
            \/ x.volume_metrics = None
            \/ x.company_profile = None \/ x.company_profile.sector = None
      [] name = "4_percent_bullish_yesterday" ->
            \/ x.price_metrics = None \/ x.volume_metrics = None
            \/ no_cap \/ x.rs_sts = None
      [] name = "healthy_chart_watchlist" ->
            \/ no_rs \/ x.rating.comp_rating = None \/ x.rating.ad_rating = "None"
            \/ x.rating.price_vs_52w_high = None
            \/ x.moving_averages = None \/ x.volume_metrics = None

\* C14: in every screener a ticker for which an input the rule set reads
\* is missing is not returned; this includes the ticker without company
\* profile in the top-2%-RS screener, whose rule set excludes sectors.
C14_MissingInputFails ==
    \A name \in screened :
        InputMissing(name, snapshot[1]) => ~InSeq(1, screener_results[name])

\* the conditions of screener `name` other than the one on RS STS%, as
\* its rule set states them
OtherConditions(name, x) ==
    LET rs_at_least(r) == x.rating # None /\ IsNum(x.rating.rs_rating)
                            /\ x.rating.rs_rating.val >= r
        eps_at_least(g) == x.eps_components # None
                             /\ IsNum(x.eps_components.eps_growth_last_qtr)
                             /\ x.eps_components.eps_growth_last_qtr.val >= g
        cap(c) == IF x.company_profile # None /\ IsNum(x.company_profile.market_cap)
                  THEN x.company_profile.market_cap.val ELSE 0
        vol == x.volume_metrics
        ma == x.moving_averages
        pm == x.price_metrics
    IN
    CASE name = "explosive_eps_growth" ->
            /\ rs_at_least(8000) /\ eps_at_least(100)
            /\ vol # None /\ vol.avg_vol_50 >= 100
            /\ ma # None /\ ma.price >= ma.ma50
      [] name = "up_on_volume" ->
            /\ rs_at_least(8000) /\ eps_at_least(20)
            /\ x.rating.ad_rating \in {"A", "B", "C"}
            /\ pm # None /\ pm.pct_change_1d >= 0 /\ pm.price >= 10
            /\ vol # None /\ vol.avg_vol_50 >= 100 /\ vol.vol_change_pct >= 20
            /\ cap(0) >= 250
      [] name = "top_2_percent_rs" ->
            /\ rs_at_least(9800)
            /\ ma # None /\ ma.ma10 > ma.ma21 /\ ma.ma21 > ma.ma50
            /\ vol # None /\ vol.avg_vol_50 >= 100 /\ vol.current_volume >= 100
            /\ x.company_profile # None /\ x.company_profile.sector = Str("Technology")
      [] name = "4_percent_bullish_yesterday" ->
            /\ pm # None /\ pm.price >= 1 /\ pm.pct_change_1d > 4
            /\ pm.change_from_open > 0
            /\ vol # None /\ vol.current_volume > 100 /\ vol.rel_volume > 100
            /\ vol.avg_vol_90 > 100
            /\ cap(0) > 250

\* the screeners with a condition on RS STS%
RsStsScreeners ==
    {"explosive_eps_growth", "up_on_volume", "top_2_percent_rs",
     "4_percent_bullish_yesterday"}

\* C15: a screener with an RS STS% condition never returns a ticker whose
\* RS STS% is missing or below 80 (79.99 is), and returns the ticker whose
\* RS STS% is exactly 80.00 when its other conditions hold.
C15_RsStsBoundary ==
    \A name \in screened \cap RsStsScreeners :
        LET x == snapshot[1] IN
        /\ InSeq(1, screener_results[name]) => (IsNum(x.rs_sts) /\ x.rs_sts.val >= 8000)
        /\ x.rs_sts = Num(7999) => ~InSeq(1, screener_results[name])
        /\ (x.rs_sts = Num(8000) /\ OtherConditions(name, x)) =>
              InSeq(1, screener_results[name])

\* the 4% bullish screener returns a ticker whose RS STS% is exactly 80.00
C15_Witness ==
    /\ screened = {"4_percent_bullish_yesterday"}
    /\ snapshot[1].rs_sts = Num(8000)
    /\ screener_results["4_percent_bullish_yesterday"] = <<1>>

----------------------------------------------------------------------------
(* Claims about full runs *)

\* C16: when a full run is over, every RS row, EPS row and rating row of
\* the store was written by that run, and the tickers ranked by RS value
\* are among the instruments this run collected.
C16_StoreHoldsOnlyThisRun ==
    run_phase = "done" =>
        /\ \A t \in Instruments :
              /\ db_calculated_rs[t] \in {0, run_no}
              /\ db_calculated_eps[t] \in {0, run_no}
              /\ db_calculated_ratings[t] \in {0, run_no}
        /\ rs_values_dict \subseteq collected_tickers

----------------------------------------------------------------------------
(* Claims about calculate_eps_components *)

\* does quarter i (0 the latest) lack the eps field?
LacksEps(i) ==
    /\ i + 1 \in DOMAIN income_statements_quarterly
    /\ income_statements_quarterly[i + 1].eps = Lacking

\* the quarterly statements with each lacking eps field given as null
LackingAsNull ==
    [i \in DOMAIN income_statements_quarterly |->
        IF income_statements_quarterly[i].eps = Lacking THEN [eps |-> None]
        ELSE income_statements_quarterly[i]]

\* C17: when a quarterly statement lacks the eps field, the growth
\* component that reads it (the latest one for quarters 0 and 4, the prior
\* one for quarters 1 and 5) is null, and the result is the one the call
\* gives when the field is null: no component comes from a substituted 0.
C17_LackingEpsIsMissing ==
    (ec_pc = "return" /\ ec_result # None) =>
        /\ (LacksEps(0) \/ LacksEps(4)) => ec_result.eps_growth_last_qtr = None
        /\ (LacksEps(1) \/ LacksEps(5)) => ec_result.eps_growth_prev_qtr = None
        /\ ec_result = calculate_eps_components(LackingAsNull, income_statements_annual)

----------------------------------------------------------------------------
(* Claims about calculate_smr_ratings *)

\* the instruments whose raw value of component c is a number
SmrRanked(c) ==
    {t \in DOMAIN smr_components_dict : IsNum(smr_components_dict[t][c])}

\* the components of instrument t that have a raw value
SmrHas(t) == {c \in SmrComponents : t \in SmrRanked(c)}

\* the percentile of instrument t for component c: its place among the
\* ranked instruments, earlier tickers first among equals, out of their
\* number, as a percentage rounded to two decimals (in hundredths)
SmrPercentile(c, t) ==
    LET v(u) == smr_components_dict[u][c].val
        place == Cardinality({u \in SmrRanked(c) :
                     v(u) < v(t) \/ (v(u) = v(t) /\ u <= t)})
    IN RoundDiv(10000 * place, Cardinality(SmrRanked(c)))

\* the literal weights of the claim, in hundredths
ClaimedSmrWeight(c) ==
    CASE c = "avg_sales_growth_3q" -> 40
      [] c = "pretax_margin_annual" -> 20
      [] c = "aftertax_margin_quarterly" -> 20
      [] c = "roe_annual" -> 20

SmrWeightedSum(t) ==
    SumOver(SmrHas(t),
            [c \in SmrHas(t) |-> ClaimedSmrWeight(c) * SmrPercentile(c, t)])

SmrWeightSum(t) == SumOver(SmrHas(t), [c \in SmrHas(t) |-> ClaimedSmrWeight(c)])

\* is the score of instrument t, sum(w_c * p_c) / sum(w_c), at least
\* `least` (a number of hundredths)?
SmrScoreAtLeast(t, least) == SmrWeightedSum(t) >= least * SmrWeightSum(t)

\* the score of instrument t rounded to two decimals, in hundredths
SmrRoundedScore(t) == RoundDiv(SmrWeightedSum(t), SmrWeightSum(t))

\* C18 (as stated): the instruments with a letter are those with a raw
\* component; the letter is A iff the weights-renormalized score is at
\* least 80, B iff it is in [60,80), C iff in [40,60), D iff in [20,40), E
\* iff below 20.
C18_ExactScoreLetter ==
    smr_pc = "return" =>
        /\ DOMAIN smr_result = {t \in DOMAIN smr_components_dict : SmrHas(t) # {}}
        /\ \A t \in DOMAIN smr_result :
              /\ smr_result[t] = "A" <=> SmrScoreAtLeast(t, 8000)
              /\ smr_result[t] = "B" <=>
                    (SmrScoreAtLeast(t, 6000) /\ ~SmrScoreAtLeast(t, 8000))
              /\ smr_result[t] = "C" <=>
                    (SmrScoreAtLeast(t, 4000) /\ ~SmrScoreAtLeast(t, 6000))
              /\ smr_result[t] = "D" <=>
                    (SmrScoreAtLeast(t, 2000) /\ ~SmrScoreAtLeast(t, 4000))
              /\ smr_result[t] = "E" <=> ~SmrScoreAtLeast(t, 2000)

\* C18 (amended): the same with the score rounded to two decimals before
\* it is compared with 80, 60, 40 and 20.
C18_RoundedScoreLetter ==
    smr_pc = "return" =>
        /\ DOMAIN smr_result = {t \in DOMAIN smr_components_dict : SmrHas(t) # {}}
        /\ \A t \in DOMAIN smr_result :
              /\ smr_result[t] = "A" <=> SmrRoundedScore(t) >= 8000
              /\ smr_result[t] = "B" <=>
                    (SmrRoundedScore(t) >= 6000 /\ SmrRoundedScore(t) < 8000)
              /\ smr_result[t] = "C" <=>
                    (SmrRoundedScore(t) >= 4000 /\ SmrRoundedScore(t) < 6000)
              /\ smr_result[t] = "D" <=>
                    (SmrRoundedScore(t) >= 2000 /\ SmrRoundedScore(t) < 4000)
              /\ smr_result[t] = "E" <=> SmrRoundedScore(t) < 2000

\* three instruments with all four components; the first is the lowest of
\* three in sales growth and both margins and the second of three in ROE:
\* (0.4 * 33.33 + 0.2 * 33.33 + 0.2 * 33.33 + 0.2 * 66.67) / 1.0 = 39.998,
\* which is rounded to 40.00 and gets the letter C
C18_Witness ==
    /\ smr_pc = "return"
    /\ Len(smr_components_dict) = 3
    /\ \A t \in 1..3 : SmrHas(t) = SmrComponents
    /\ SmrWeightedSum(1) = 399980
    /\ smr_result[1] = "C"
    /\ smr_result[3] = "A"

----------------------------------------------------------------------------
(* Claims about calculate_ad_rating *)

\* the 65 last bars of the price history
TrailingWindow == SubSeq(price_history, Len(price_history) - 64, Len(price_history))

\* does the trailing window have a day that closes above (below) the day
\* before?
HasUpDay ==
    \E i \in 2..65 : TrailingWindow[i].close > TrailingWindow[i - 1].close
HasDownDay ==
    \E i \in 2..65 : TrailingWindow[i].close < TrailingWindow[i - 1].close

\* the combined score is at least (below) hundredths / 100
CombinedAtLeast(hundredths) ==
    100 * combined_score.num >= hundredths * combined_score.den
CombinedBelow(hundredths) ==
    100 * combined_score.num < hundredths * combined_score.den

----------------------------------------------------------------------------
(* Claims about calculate_rs_value *)

\* the five terms of the tuple returned
RsTerms == {"rs_value", "roc_63d", "roc_126d", "roc_189d", "roc_252d"}

\* all bars supplied close at one price
FlatClose == \A i, j \in DOMAIN rsv_close : rsv_close[i] = rsv_close[j]

\* C20: with fewer than 252 bars the RS value and the four rates of change
\* are null; with 252 bars or more that all close at one price each of the
\* five is exactly 0.
C20_FlatPriceIsZero ==
    rsv_pc = "return" =>
        IF rsv_close = None \/ Len(rsv_close) < 252
        THEN \A f \in RsTerms : rsv_out[f] = None
        ELSE FlatClose => \A f \in RsTerms : rsv_out[f] # None /\ rsv_out[f].num = 0

\* 252 bars that all close at 2
C20_Witness ==
    /\ rsv_pc = "return"
    /\ rsv_close # None
    /\ Len(rsv_close) = 252
    /\ \A i \in DOMAIN rsv_close : rsv_close[i] = 2
    /\ \A f \in RsTerms : rsv_out[f] # None /\ rsv_out[f].num = 0

----------------------------------------------------------------------------
(* Claims about the stability score of calculate_eps_components *)

\* the latest quarters, eight at most, whose eps is a positive number
PositiveQuarters ==
    {i \in DOMAIN income_statements_quarterly :
        /\ i <= 8
        /\ IsNum(income_statements_quarterly[i].eps)
        /\ income_statements_quarterly[i].eps.val > 0}

\* the stability score is null or a number in [0,100], and 100 when there
\* are eight quarters with one positive eps
StabilityInRange ==
    /\ ec_result.stability_score # None =>
          (0 <= ec_result.stability_score.val /\ ec_result.stability_score.val <= 10000)
    /\ (/\ Len(income_statements_quarterly) = 8
        /\ PositiveQuarters = 1..8
        /\ \A i \in 1..8 : income_statements_quarterly[i].eps
                                = income_statements_quarterly[1].eps)
          => ec_result.stability_score = Num(10000)

\* C21 (as stated): the stability score is defined exactly when at least 6
\* of the latest quarters, up to 8 of them, have a positive eps; it lies in
\* [0,100] and is 100 for eight identical positive values.
C21_DefinedFromSixPositive ==
    (ec_pc = "return" /\ ec_result # None) =>
        /\ ec_result.stability_score # None <=> Cardinality(PositiveQuarters) >= 6
        /\ StabilityInRange

\* C21 (amended): the stability score is defined exactly when there are 8
\* quarterly statements and at least 6 of them have a positive eps; it
\* lies in [0,100] and is 100 for eight identical positive values.
C21_DefinedFromSixOfEight ==
    (ec_pc = "return" /\ ec_result # None) =>
        /\ ec_result.stability_score # None <=>
              (Len(income_statements_quarterly) >= 8 /\ Cardinality(PositiveQuarters) >= 6)
        /\ StabilityInRange

\* eight quarters with an eps of 1 each and a stability score of 100
C21_Witness ==
    /\ ec_pc = "return"
    /\ Len(income_statements_quarterly) = 8
    /\ \A i \in 1..8 : income_statements_quarterly[i].eps = Num(1)
    /\ ec_result.stability_score = Num(10000)

----------------------------------------------------------------------------
(* Claims about calculate_smr_components *)

\* the net income of the latest annual statement is a number other than 0
NetIncomeNonZero ==
    IsNum(income_annual[1].net_income) /\ income_annual[1].net_income.val # 0

\* C22: where components are returned and there is a balance sheet, a
\* latest sheet without a stockholders'-equity figure and with a positive
\* total equity gives, for a non-zero annual net income, the ROE
\* net income / total equity * 100; a stockholders'-equity figure that is
\* there is the one used, and total equity is not.
C22_RoeFallsBackToTotalEquity ==
    (smc_pc = "return" /\ smc_result # None /\ balance_sheet # <<>>) =>
        LET se == balance_sheet[1].total_stockholders_equity
            te == balance_sheet[1].total_equity
            net == income_annual[1].net_income
        IN /\ (se \in {Lacking, None} /\ IsNum(te) /\ te.val > 0 /\ NetIncomeNonZero)
                => smc_result.roe_annual = Percent(net.val, te.val)
           /\ IsNum(se) =>
                smc_result.roe_annual =
                    IF se.val > 0 /\ NetIncomeNonZero THEN Percent(net.val, se.val)
                    ELSE None

\* a sheet with a null stockholders' equity and a total equity of 4, a net
\* income of 3: the ROE is 3 / 4 * 100
C22_Witness ==
    /\ smc_pc = "return"
    /\ smc_result # None
    /\ balance_sheet # <<>>
    /\ balance_sheet[1].total_stockholders_equity = None
    /\ balance_sheet[1].total_equity = Num(4)
    /\ income_annual[1].net_income = Num(3)
    /\ smc_result.roe_annual = [tag |-> "frac", num |-> 300, den |-> 4]

----------------------------------------------------------------------------
(* Claims about the renormalized weighted scores *)

\* C23: multiplying the weights of all components by one positive
\* constant leaves the EPS Rating, the SMR score and the Composite Rating
\* as they are.
C23_WeightScaleInvariant ==
    ws_pc = "return" => ws_scaled = ws_plain

\* an EPS Rating between the percentiles 50 and 100 of its components,
\* under weights multiplied by 3
C23_Witness ==
    /\ ws_pc = "return"
    /\ ws_kind = "eps"
    /\ ws_scale = 3
    /\ \E t \in DOMAIN ws_plain : 5000 < ws_plain[t] /\ ws_plain[t] < 10000

----------------------------------------------------------------------------
(* Claims about the pipeline *)

\* C24: no metric kind is ranked until every collection batch has
\* completed and the raw metric of the kind has been derived, and stored
\* where there is one, for every collected instrument.
C24_RankAfterDerivation ==
    \A k \in MetricKinds :
        pl_ranked[k] # None =>
            /\ pl_ranked[k].unfinished = {}
            /\ pl_ranked[k].underived = {}
            /\ \A b \in DOMAIN pl_batch : pl_batch[b] \in {"returned", "raised"}
            /\ pl_collected \subseteq pl_tried[k]

\* the three kinds ranked over three collected instruments
C24_Witness ==
    /\ \A k \in MetricKinds : pl_ranked[k] # None /\ pl_ranked[k].over # {}
    /\ Cardinality(pl_collected) = 3

----------------------------------------------------------------------------
(* Claims about fetch_with_rate_limit *)

\* C25: during the pass over one instrument each endpoint is requested at
\* most once; a request that fails is returned as None, no exception
\* leaves fetch_with_rate_limit, and nothing is asked a second time.
C25_OneRequestNoRaise ==
    /\ \A e \in DOMAIN fx_requests : fx_requests[e] <= 1
    /\ ~fx_escaped
    /\ \A e \in DOMAIN fx_data :
          (fx_data[e] # Unasked /\ fx_upstream[e] \in Failures) => fx_data[e] = None

\* a pass whose annual request failed and that still returned True after
\* five requests
C25_Witness ==
    /\ fx_ret = "True"
    /\ fx_upstream["income_a"] \in Failures
    /\ fx_data["income_a"] = None
    /\ \A e \in DOMAIN fx_requests : fx_requests[e] = 1

----------------------------------------------------------------------------
(* Claims about the connections of collect_batch *)

\* the batch a ticker of the list is in
BatchOf(t) == CHOOSE b \in DOMAIN batch_pc : InSeq(t, batches[b])

\* C26: a batch opens its own connection, passes that connection and no
\* other to collect_ticker_data, no other batch uses it, and the batch
\* has closed it when it ends; a batch that ends without one never had
\* one.
C26_OwnConnectionClosed ==
    /\ \A t \in DOMAIN ticker_log :
          ticker_log[t].calls > 0 =>
              ticker_log[t].conn = BatchOf(t) /\ ticker_log[t].conn_state = "open"
    /\ \A b \in DOMAIN batch_pc :
          /\ batch_pc[b] = "done" => batch_conn[b] = "closed"
          /\ batch_pc[b] = "raised" => batch_conn[b] = "none"
          /\ batch_pc[b] = "queued" => batch_conn[b] = "none"
          /\ batch_conn[b] = "open" <=> batch_pc[b] = "running"

\* two batches have run their tickers over their own connections and have
\* closed them, a third one could not open its connection
C26_Witness ==
    /\ Len(tickers_list) = 5
    /\ batch_pc = <<"done", "done", "raised">>
    /\ batch_conn = <<"closed", "closed", "none">>
    /\ ticker_log[1].conn = 1 /\ ticker_log[2].conn = 1
    /\ ticker_log[3].conn = 2 /\ ticker_log[4].conn = 2
    /\ ticker_log[5].calls = 0

----------------------------------------------------------------------------
(* Claims about the return of wait_if_needed *)

\* the calls that have begun and have neither returned nor raised
InWait == {w \in Workers : rl_pc[w] \notin {"idle", "raised"}}

\* C27: a call of wait_if_needed sleeps only when the retained history
\* has reached max_calls_per_minute, and then until its oldest timestamp
\* is 60 seconds old; every call returns and records one timestamp: no
\* call ends in an exception, and the calls begun are those that have
\* returned and those still under way.
C27_EveryCallReturns ==
    /\ \A w \in Workers : rl_pc[w] # "raised"
    /\ rl_started = Len(released) + Cardinality(InWait)
    /\ \A w \in Workers :
          rl_pc[w] = "sleep" =>
              /\ rl_wake[w] > clock - WindowSeconds
              /\ rl_wake[w] <= rl_now[w] + WindowSeconds

----------------------------------------------------------------------------
(* Claims about the RS STS % *)

\* the series get_rs_sts_percentile computes its value from
StsSeries == calculate_relative_strength(sts_benchmark, sts_target, RsDays)

\* the percentile calculate_percentile_ranking gives the last element of
\* a series that is not empty
RankOfLast(series) ==
    calculate_percentile_ranking(
        [i \in 1..Len(series) |-> [ticker |-> i, value |-> Num(series[i])]])[Len(series)]

\* the common dates of the two frames on which the benchmark does not
\* close at 0
SharedNonZeroDates ==
    IF sts_benchmark = None \/ sts_target = None THEN {}
    ELSE {sts_benchmark.rows[i].date : i \in {j \in 1..Len(sts_benchmark.rows) :
                                                 sts_benchmark.rows[j].close # 0}}
         \cap {sts_target.rows[i].date : i \in 1..Len(sts_target.rows)}

\* C28: the RS STS % of a series is the percentile the ranking algorithm
\* gives the last element of the series, ties included; and
\* get_rs_sts_percentile returns None unless the two frames share at least
\* 25 dates with a benchmark close other than 0.
C28_RsStsIsRankOfLast ==
    /\ (sts_pc = "calculated" /\ sts_series # None /\ sts_series # Array(<<>>))
          => sts_result = Num(RankOfLast(sts_series.values))
    /\ (sts_pc = "got" /\ sts_result # None)
          => sts_result = Num(RankOfLast(StsSeries.values))
    /\ (sts_pc = "got" /\ Cardinality(SharedNonZeroDates) < 25)
          => sts_result = None

\* 25 common dates on which the latest ratio ties with others and is not
\* the greatest
C28_Witness ==
    /\ sts_pc = "got"
    /\ sts_benchmark # None /\ sts_target # None
    /\ sts_result # None
    /\ sts_result.val < 10000
    /\ Cardinality({i \in 1..25 : StsSeries.values[i] = StsSeries.values[25]}) > 1

----------------------------------------------------------------------------
(* Claims about the batches of collect_all_data *)

\* the batches one after the other
RECURSIVE Concat(_)
Concat(ss) == IF ss = <<>> THEN <<>> ELSE Concat(SubSeq(ss, 1, Len(ss) - 1)) \o ss[Len(ss)]

\* C29: the batches are consecutive slices of batch_size tickers, the
\* last one possibly shorter, so every instrument is in exactly one batch;
\* each batch is one task of the pool; at most max_workers batches run at
\* a time; collect_ticker_data is never called twice for an instrument and
\* has been called once for every input instrument when collect_all_data
\* returns.
C29_OneCallPerInstrument ==
    /\ Concat(batches) = tickers_list
    /\ \A b \in DOMAIN batches :
          /\ Len(batches[b]) >= 1
          /\ Len(batches[b]) <= BatchSize
          /\ b < Len(batches) => Len(batches[b]) = BatchSize
    /\ DOMAIN batch_pc = DOMAIN batches
    /\ Cardinality(Running) <= MaxWorkers
    /\ \A t \in DOMAIN ticker_log : ticker_log[t].calls <= 1
    /\ col_pc = "returned" => \A t \in DOMAIN ticker_log : ticker_log[t].calls = 1

----------------------------------------------------------------------------
(* Claims about the store writes of collect_ticker_data *)

\* the store writes of the call, in order
Writes ==
    SelectSeq(ct_out.trace,
              LAMBDA x : x \in {"put_prices", "put_income_q", "put_income_a",
                                "put_balance_sheet", "put_profile"})

\* C30: a call that returns False for fewer than 252 bars has written
\* nothing; a call that returns True has written the price history and
\* then the quarterly statements before any other write; a call rejected
\* for fewer than 5 quarterly statements has written the price bars, and
\* nothing else, and returns False.
C30_WritesFollowFetches ==
    ct_pc = "return" =>
        /\ ~EnoughBars(ct_env.prices) => (~ct_out.ret /\ Writes = <<>>)
        /\ ct_out.ret =>
              /\ Len(Writes) >= 2
              /\ Writes[1] = "put_prices"
              /\ Writes[2] = "put_income_q"
        /\ (EnoughBars(ct_env.prices) /\ ct_env.raise_at # "prices"
              /\ ~EnoughQuarters(ct_env.income_q))
              => (~ct_out.ret /\ ~ct_out.raised /\ Writes = <<"put_prices">>)

\* 252 bars and 4 quarterly statements: the bars are written and the call
\* returns False
C30_Witness ==
    /\ ct_pc = "return"
    /\ ct_env.prices = Num(252)
    /\ ct_env.income_q = Num(4)
    /\ ~ct_out.ret
    /\ ct_out.trace = <<"get_prices", "put_prices", "get_income_q">>

====
